---------------------------- MODULE Spec2Model ----------------------------
(***************************************************************************)
(* A model of the SportyBet scraper (src/scraper.py): the shared cache,   *)
(* the response validator, the dual-strategy transport and the endpoint   *)
(* chain walked by SportyBetScraper.get_today_matches.                    *)
(*                                                                         *)
(* The specifications share the variables:                                *)
(*   Spec          get_today_matches calls, one suspension point per      *)
(*                 network request, and the monotonic clock;              *)
(*   SpecCache     the _Cache API (get / set / invalidate) and the clock; *)
(*   SpecValidate  _validate applied to every (status, body, url) input;  *)
(*   SpecFetch     _fetch called directly on the endpoint descriptors;     *)
(*   SpecConc      two get_today_matches coroutines on one event loop;     *)
(*   SpecExtract   _extract_match applied to every event of a bounded set; *)
(*   SpecParse     _parse_highlights applied to flat-list documents.       *)
(***************************************************************************)
EXTENDS Integers, Sequences, FiniteSets, TLC

VARIABLES
    cache,          \* _match_cache: [data, ts]
    now,            \* time.monotonic(), in whole seconds
    curlInstalled,  \* whether "from curl_cffi.requests import AsyncSession" succeeds
    call,           \* per caller: the state of its get_today_matches coroutine
    got,            \* SpecCache: the last _Cache.get() made directly, with its history
    vIn,            \* SpecValidate: the (status, text, url) handed to _validate
    vOut,           \* SpecValidate: what _validate did with it
    fetch,          \* SpecFetch: the descriptors' params and the _fetch made directly
    xIn,            \* SpecExtract, SpecParse: the event or document handed over
    xOut,           \* SpecExtract, SpecParse: what came back
    user_selections,\* bot.py: user_id -> sel_key -> selection
    update,         \* SpecBot: the update the bot handled last
    fj,             \* SpecFetchJson: the fetch_json call in progress
    gen             \* SpecBooking: the BookingCodeGenerator.generate call in progress

vars == <<cache, now, curlInstalled, call, got, vIn, vOut, fetch, xIn, xOut,
          user_selections, update, fj, gen>>

---------------------------------------------------------------------------
(* Program constants                                                       *)

CACHE_TTL == 300

ENDPOINTS ==
    << [url    |-> "/sport/football/highlights",
        params |-> [sportId |-> "sr:sport:1", marketId |-> "1,18,10", pageSize |-> "100"],
        parser |-> "highlights"],
       [url    |-> "/sport/football/events/schedule/today",
        params |-> [marketId |-> "1,18,10"],
        parser |-> "schedule"],
       [url    |-> "/factsCenter/football",
        params |-> [sportId |-> "1", marketId |-> "1,18,10", page |-> "1",
                    pageSize |-> "100"],
        parser |-> "highlights"] >>

NumEndpoints == Len(ENDPOINTS)

(* Bounds of the model                                                     *)

MaxTime == 600       \* the clock stops advancing past this many seconds
MaxFetches == 3      \* the number of direct _fetch calls counted
MaxNameLen == 40     \* the longest team or league name handed to the extraction
MaxEvents == 3       \* the most events in a document handed to the parser

\* The clock advances in jumps that straddle the TTL, so that ages of
\* 299 s and 300 s both occur.
TickSteps == {CACHE_TTL - 1, CACHE_TTL}

---------------------------------------------------------------------------
(* Python values: what json.loads returns                                  *)

JInt(n)  == [t |-> "int",  n |-> n]
JStr(s)  == [t |-> "str",  s |-> s]
JBool(b) == [t |-> "bool", b |-> b]
JFloat(h) == [t |-> "float", h |-> h]      \* the float h / 100
JNull    == [t |-> "null"]                 \* None
JObj(f)  == [t |-> "dict", f |-> f]        \* f: a function from keys to values
JArr(a)  == [t |-> "list", a |-> a]        \* a: a sequence of values

EmptyDict == JObj(<<>>)
EmptyList == JArr(<<>>)

IsDict(v) == v.t = "dict"
IsList(v) == v.t = "list"

\* d.get(k, default) on a dict d
Get(d, k, default) == IF k \in DOMAIN d.f THEN d.f[k] ELSE default

\* bool(v)
Truthy(v) ==
    CASE v.t = "int"  -> v.n # 0
      [] v.t = "float" -> v.h # 0
      [] v.t = "str"  -> v.s # ""
      [] v.t = "bool" -> v.b
      [] v.t = "dict" -> DOMAIN v.f # {}
      [] v.t = "list" -> v.a # <<>>
      [] OTHER        -> FALSE

\* v != 0
NotEqualZero(v) ==
    CASE v.t = "int"  -> v.n # 0
      [] v.t = "float" -> v.h # 0
      [] v.t = "bool" -> v.b
      [] OTHER        -> TRUE

\* Two digits, with a leading zero.
TwoDigits(k) == IF k < 10 THEN "0" \o ToString(k) ELSE ToString(k)

\* str(v); a container is rendered by its kind only
PyStr(v) ==
    CASE v.t = "int"  -> ToString(v.n)
      [] v.t = "float" ->
            ToString(v.h \div 100) \o "." \o
            (IF v.h % 10 = 0 THEN ToString((v.h % 100) \div 10) ELSE TwoDigits(v.h % 100))
      [] v.t = "str"  -> v.s
      [] v.t = "bool" -> IF v.b THEN "True" ELSE "False"
      [] v.t = "dict" -> "{...}"
      [] v.t = "list" -> "[...]"
      [] OTHER        -> "None"

---------------------------------------------------------------------------
(* Exceptions                                                              *)

NoExc == [type |-> "None", message |-> "", endpoint |-> "None", cause |-> "None"]

\* ScraperError(message, cause=..., endpoint=...); cause names the type of
\* the underlying exception.
ScraperError(message, cause, endpoint) ==
    [type |-> "ScraperError", message |-> message, endpoint |-> endpoint, cause |-> cause]

\* Any other exception, by its type name.
Exc(type) == [type |-> type, message |-> "", endpoint |-> "None", cause |-> "None"]

BlockedMsg     == "Blocked (403) - install curl_cffi for Cloudflare bypass"
RateLimitedMsg == "Rate limited (429) - too many requests"
NotFoundMsg    == "Endpoint not found (404)"
HtmlMsg        == "Got HTML page - likely Cloudflare challenge"
InvalidJsonMsg == "Invalid JSON"
UnexpectedMsg  == "Unexpected error"
ExhaustedMsg   == "All endpoints exhausted - no matches returned"
HttpMsg(status) == "HTTP " \o ToString(status)
BizMsg(biz, msg) == "bizCode=" \o PyStr(biz) \o ": " \o msg

\* The outcome of a function call: a returned value or a raised exception.
Return(v) == [tag |-> "return", val |-> v,     exc |-> NoExc]
Raise(e)  == [tag |-> "raise",  val |-> JNull, exc |-> e]

---------------------------------------------------------------------------
(* _Cache                                                                  *)

\* _Cache.__init__
CacheInit == [data |-> <<>>, ts |-> 0]

\* Optional[list]: a list, or None
SomeList(l) == [none |-> FALSE, list |-> l]
NoneList    == [none |-> TRUE,  list |-> <<>>]

\* Mutants of _Cache.get: the age test reversed; the TTL bound inclusive.
CacheGetReversed(c, t) ==
    IF c.data # <<>> /\ (t - c.ts) > CACHE_TTL THEN SomeList(c.data) ELSE NoneList

CacheGetInclusive(c, t) ==
    IF c.data # <<>> /\ (t - c.ts) <= CACHE_TTL THEN SomeList(c.data) ELSE NoneList

\* _Cache.get at time t: the stored list, or None
CacheGet(c, t) ==
    IF c.data # <<>> /\ (t - c.ts) < CACHE_TTL THEN SomeList(c.data) ELSE NoneList

\* Mutants of _Cache.set: an empty list is not stored; the timestamp is
\* left as it was.
CacheSetSkipsEmpty(c, matches, t) ==
    IF matches = <<>> THEN c ELSE [data |-> matches, ts |-> t]

CacheSetKeepsTs(c, matches, t) == [data |-> matches, ts |-> c.ts]

\* Mutant of _Cache.set: the new matches are added to the stored list.
CacheSetExtends(c, matches, t) == [data |-> c.data \o matches, ts |-> t]

\* _Cache.set(matches) at time t
CacheSet(c, matches, t) == [data |-> matches, ts |-> t]

\* Mutant of _Cache.invalidate: the timestamp is reset, the list is kept.
CacheInvalidateKeepsData(c) == [data |-> c.data, ts |-> 0]

\* _Cache.invalidate
CacheInvalidate(c) == [data |-> <<>>, ts |-> 0]

---------------------------------------------------------------------------
(* Response validator                                                      *)

\* A response body, by what _validate asks of it:
\*   bang     text.strip().startswith("<!")
\*   html300  "<html" in text[:300].lower()
\*   valid    json.loads(text) succeeds, and then returns doc
Text(bang, html300, valid, doc) ==
    [bang |-> bang, html300 |-> html300, valid |-> valid, doc |-> doc]

\* json.loads(text)
JsonLoads(text) ==
    IF text.valid THEN Return(text.doc) ELSE Raise(Exc("JSONDecodeError"))

\* What _validate did: its outcome, and whether it got as far as json.loads.
Validated(outcome, decoded) ==
    [tag |-> outcome.tag, val |-> outcome.val, exc |-> outcome.exc, decoded |-> decoded]

\* Mutant of the status checks: the catch-all "status != 200" is missing.
ValidateStatusNoCatchAll(status, url) ==
    IF status = 403 THEN
        Validated(Raise(ScraperError(BlockedMsg, "None", url)), FALSE)
    ELSE IF status = 429 THEN
        Validated(Raise(ScraperError(RateLimitedMsg, "None", url)), FALSE)
    ELSE IF status = 404 THEN
        Validated(Raise(ScraperError(NotFoundMsg, "None", url)), FALSE)
    ELSE Validated(Return(JNull), FALSE)

\* _validate, the checks of the status code; "ok" stands for no raise
StatusOk == Validated(Return(JNull), FALSE)

ValidateStatus(status, url) ==
    IF status = 403 THEN
        Validated(Raise(ScraperError(BlockedMsg, "None", url)), FALSE)
    ELSE IF status = 429 THEN
        Validated(Raise(ScraperError(RateLimitedMsg, "None", url)), FALSE)
    ELSE IF status = 404 THEN
        Validated(Raise(ScraperError(NotFoundMsg, "None", url)), FALSE)
    ELSE IF status # 200 THEN
        Validated(Raise(ScraperError(HttpMsg(status), "None", url)), FALSE)
    ELSE StatusOk

\* _validate, the checks of the body
ValidateText(text, url) ==
    IF text.bang \/ text.html300 THEN
        Validated(Raise(ScraperError(HtmlMsg, "None", url)), FALSE)
    ELSE
        LET loaded == JsonLoads(text) IN
        IF loaded.tag = "raise" THEN
            Validated(Raise(ScraperError(InvalidJsonMsg, loaded.exc.type, url)), TRUE)
        ELSE
            LET data == loaded.val IN
            IF ~IsDict(data) THEN
                \* data.get on a list, a scalar or None
                Validated(Raise(Exc("AttributeError")), TRUE)
            ELSE
                LET biz == Get(data, "bizCode", Get(data, "code", JNull)) IN
                IF Truthy(biz) /\ NotEqualZero(biz) THEN
                    LET msg == Get(data, "message", JStr("API error")) IN
                    Validated(Raise(ScraperError(BizMsg(biz, PyStr(msg)), "None", url)), TRUE)
                ELSE
                    Validated(Return(data), TRUE)

\* Mutant of _validate: the body is checked before the status code.
ValidateTextFirst(status, text, url) ==
    LET b == ValidateText(text, url) IN
    IF b.tag = "raise" THEN b
    ELSE LET s == ValidateStatus(status, url) IN
         IF s.tag = "raise" THEN s ELSE b

\* SportyBetScraper._validate(status, text, url)
Validate(status, text, url) ==
    LET s == ValidateStatus(status, url) IN
    IF s.tag = "raise" THEN s ELSE ValidateText(text, url)

---------------------------------------------------------------------------
(* Parsers                                                                 *)

FIELD_MAP_event_id == <<"eventId", "id", "gameId", "matchId">>

\* _pick(d, keys, default) on a dict d: the first value that is not None,
\* "" or []
RECURSIVE Pick(_, _, _)
Pick(d, keys, default) ==
    IF keys = <<>> THEN default
    ELSE LET v == Get(d, Head(keys), JNull) IN
         IF v # JNull /\ v # JStr("") /\ v # EmptyList THEN v
         ELSE Pick(d, Tail(keys), default)

\* A canonical match record.  Only the identifier is carried here: the
\* facade and the cache never look inside a match.
Match(event_id) == [event_id |-> event_id]

\* SportyBetScraper._extract_match(event, league): a match, None, or the
\* AttributeError of event.get when the event is not an object
ExtractMatch(event, league) ==
    IF ~IsDict(event) THEN Raise(Exc("AttributeError"))
    ELSE LET event_id == Pick(event, FIELD_MAP_event_id, JNull) IN
         IF ~Truthy(event_id) THEN Return(JNull)
         ELSE Return(Match(PyStr(event_id)))

\* [m for m in (extract(e, league) for e in events) if m], or the first
\* exception an extraction raises
RECURSIVE ExtractAll(_, _)
ExtractAll(events, league) ==
    IF events = <<>> THEN Return(<<>>)
    ELSE LET first == ExtractMatch(Head(events), league) IN
         IF first.tag = "raise" THEN first
         ELSE LET rest == ExtractAll(Tail(events), league) IN
              IF rest.tag = "raise" THEN rest
              ELSE Return((IF first.val = JNull THEN <<>> ELSE <<first.val>>) \o rest.val)

\* SportyBetScraper._parse_highlights(data)
ParseHighlights(data) ==
    LET payload == Get(data, "data", data)
        events  == IF IsDict(payload) THEN Get(payload, "events", payload) ELSE payload
    IN  IF ~IsList(events) THEN Return(<<>>)
        ELSE ExtractAll(events.a, JNull)

\* "for x in v": the items of a list; a dict or a str yields its keys or
\* characters, which are strings; anything else is not iterable.
Iterate(v) ==
    CASE v.t = "list" -> Return(v.a)
      [] v.t = "dict" -> Return([i \in 1..Cardinality(DOMAIN v.f) |-> JStr("key")])
      [] v.t = "str"  -> Return(IF v.s = "" THEN <<>> ELSE <<JStr("char")>>)
      [] OTHER        -> Raise(Exc("TypeError"))

\* The body of _parse_schedule's outer loop for tournaments ts, in order.
RECURSIVE ScheduleLoop(_)
ScheduleLoop(ts) ==
    IF ts = <<>> THEN Return(<<>>)
    ELSE LET t == Head(ts) IN
         IF ~IsDict(t) THEN Raise(Exc("AttributeError"))     \* _pick(t, ...)
         ELSE LET league == Pick(t, <<"name", "tournamentName", "leagueName">>,
                                 JStr("Football"))
                  events == Iterate(Get(t, "events", EmptyList))
              IN  IF events.tag = "raise" THEN events
                  ELSE LET mine == ExtractAll(events.val, league) IN
                       IF mine.tag = "raise" THEN mine
                       ELSE LET rest == ScheduleLoop(Tail(ts)) IN
                            IF rest.tag = "raise" THEN rest
                            ELSE Return(mine.val \o rest.val)

\* SportyBetScraper._parse_schedule(data)
ParseSchedule(data) ==
    LET payload == Get(data, "data", EmptyDict) IN
    IF ~IsDict(payload) THEN Raise(Exc("AttributeError"))    \* payload.get
    ELSE LET ts == Iterate(Get(payload, "tournaments", EmptyList)) IN
         IF ts.tag = "raise" THEN ts ELSE ScheduleLoop(ts.val)

\* SportyBetScraper._parse(data, parser_type)
Parse(data, parser_type) ==
    IF parser_type = "highlights" THEN ParseHighlights(data)
    ELSE IF parser_type = "schedule" THEN ParseSchedule(data)
    ELSE Return(<<>>)

---------------------------------------------------------------------------
(* Strings and numbers, as Python reads and renders them                   *)

Digits     == "0123456789"
UpperCase  == "ABCDEFGHIJKLMNOPQRSTUVWXYZ"
LowerCase  == "abcdefghijklmnopqrstuvwxyz"

CharAt(s, i) == SubSeq(s, i, i)

IsDigit(c) == \E i \in 1..Len(Digits) : CharAt(Digits, i) = c
DigitVal(c) == (CHOOSE i \in 1..Len(Digits) : CharAt(Digits, i) = c) - 1

IsDigits(s) == Len(s) > 0 /\ \A i \in 1..Len(s) : IsDigit(CharAt(s, i))

\* The number a string of digits denotes.
RECURSIVE DigitsVal(_)
DigitsVal(s) ==
    IF s = "" THEN 0
    ELSE 10 * DigitsVal(SubSeq(s, 1, Len(s) - 1)) + DigitVal(CharAt(s, Len(s)))

\* c.lower()
LowerChar(c) ==
    IF \E i \in 1..Len(UpperCase) : CharAt(UpperCase, i) = c
    THEN CharAt(LowerCase, CHOOSE i \in 1..Len(UpperCase) : CharAt(UpperCase, i) = c)
    ELSE c

\* s.lower()
RECURSIVE Lower(_)
Lower(s) == IF s = "" THEN "" ELSE LowerChar(CharAt(s, 1)) \o Lower(SubSeq(s, 2, Len(s)))

\* s.strip(), for the blank as the only whitespace
RECURSIVE Strip(_)
Strip(s) ==
    IF s = "" THEN ""
    ELSE IF CharAt(s, 1) = " " THEN Strip(SubSeq(s, 2, Len(s)))
    ELSE IF CharAt(s, Len(s)) = " " THEN Strip(SubSeq(s, 1, Len(s) - 1))
    ELSE s

\* The position of the first "." of s, or 0.
DotAt(s) ==
    IF \E i \in 1..Len(s) : CharAt(s, i) = "."
    THEN CHOOSE i \in 1..Len(s) : CharAt(s, i) = "." /\ \A j \in 1..(i - 1) : CharAt(s, j) # "."
    ELSE 0

\* float(s) for a string: digits, or digits "." one or two digits, blanks
\* around them allowed; the value in hundredths. Any other string is
\* a ValueError (exponents, signs, "nan", "inf" and fractions of more than
\* two digits are outside the inputs of the model).
FloatOfStr(s) ==
    LET u   == Strip(s)
        dot == DotAt(u)
        int == IF dot = 0 THEN u ELSE SubSeq(u, 1, dot - 1)
        fr  == IF dot = 0 THEN "" ELSE SubSeq(u, dot + 1, Len(u))
    IN  IF IsDigits(int) /\ dot = 0 THEN [ok |-> TRUE, h |-> 100 * DigitsVal(int)]
        ELSE IF IsDigits(int) /\ IsDigits(fr) /\ Len(fr) = 1
             THEN [ok |-> TRUE, h |-> 100 * DigitsVal(int) + 10 * DigitsVal(fr)]
        ELSE IF IsDigits(int) /\ IsDigits(fr) /\ Len(fr) = 2
             THEN [ok |-> TRUE, h |-> 100 * DigitsVal(int) + DigitsVal(fr)]
        ELSE [ok |-> FALSE, h |-> 0]

\* f"{x:.2f}" for x = h / 100
TwoDecimals(h) == ToString(h \div 100) \o "." \o TwoDigits(h % 100)

\* int(v): a number, or the ValueError / TypeError it raises
IntOf(v) ==
    CASE v.t = "int"   -> [ok |-> TRUE, n |-> v.n]
      [] v.t = "float" -> [ok |-> TRUE, n |-> v.h \div 100]
      [] v.t = "bool"  -> [ok |-> TRUE, n |-> IF v.b THEN 1 ELSE 0]
      [] v.t = "str"   -> IF IsDigits(Strip(v.s)) THEN [ok |-> TRUE, n |-> DigitsVal(Strip(v.s))]
                          ELSE [ok |-> FALSE, n |-> 0]
      [] OTHER         -> [ok |-> FALSE, n |-> 0]

---------------------------------------------------------------------------
(* Helpers of the per-event extraction                                     *)

\* The one-character ellipsis U+2026 is written "~" here.
Ellipsis == "~"

\* Mutant of _truncate: the cut keeps n characters before the ellipsis.
TruncateOneTooLong(s, n) == IF Len(s) <= n THEN s ELSE SubSeq(s, 1, n) \o Ellipsis

\* _truncate(s, n)
Truncate(s, n) == IF Len(s) <= n THEN s ELSE SubSeq(s, 1, n - 1) \o Ellipsis

\* _normalize_odd(raw); None stands for the key being absent too
NormalizeOdd(raw) ==
    CASE raw.t = "int"   -> TwoDecimals(100 * raw.n)
      [] raw.t = "float" -> TwoDecimals(raw.h)
      [] raw.t = "bool"  -> IF raw.b THEN "1.00" ELSE "0.00"
      [] raw.t = "str"   -> IF FloatOfStr(raw.s).ok THEN TwoDecimals(FloatOfStr(raw.s).h)
                            ELSE raw.s
      [] raw.t = "null"  -> "?"
      [] OTHER           -> PyStr(raw)

\* The try block: datetime.fromtimestamp(int(start_ms) / 1000, tz=utc)
\* .strftime("%H:%M UTC"), or "TBD" on ValueError / TypeError / OSError.
\* Timestamps are not negative and lie within the years datetime supports.
TimeStr(start_ms) ==
    LET ms == IntOf(start_ms) IN
    IF ~ms.ok THEN "TBD"
    ELSE LET secs == ms.n \div 1000 IN
         TwoDigits((secs \div 3600) % 24) \o ":" \o TwoDigits((secs \div 60) % 60) \o " UTC"

---------------------------------------------------------------------------
(* Per-event extraction, with every field of the match                     *)

FIELD_MAP ==
    [event_id     |-> <<"eventId", "id", "gameId", "matchId">>,
     home         |-> <<"homeTeamName", "homeName", "home_name">>,
     away         |-> <<"awayTeamName", "awayName", "away_name">>,
     home_obj     |-> <<"home">>,
     away_obj     |-> <<"away">>,
     start        |-> <<"estimateStartTime", "startTime", "matchTime", "kickOffTime">>,
     league       |-> <<"tournamentName", "leagueName", "competitionName">>,
     league_obj   |-> <<"league", "tournament", "competition">>,
     markets      |-> <<"markets", "oddsMap", "marketList", "odds">>,
     market_id    |-> <<"id", "marketId", "typeId">>,
     outcomes     |-> <<"outcomes", "odds", "selections", "outcomeList">>,
     odd_val      |-> <<"odds", "value", "oddValue", "price">>,
     outcome_desc |-> <<"desc", "name", "description", "outcomeName">>]

MarketKinds == {"1x2", "ou25", "btts"}

\* OUTCOME_ALIASES[kind]: the canonical keys in the order of the dict, each
\* with its aliases
OUTCOME_ALIASES ==
    [kind \in MarketKinds |->
        CASE kind = "1x2" ->
               << [key |-> "home", aliases |-> {"1", "w1", "home", "home win", "1 (home)"}],
                  [key |-> "draw", aliases |-> {"x", "draw", "tie", "x (draw)"}],
                  [key |-> "away", aliases |-> {"2", "w2", "away", "away win", "2 (away)"}] >>
          [] kind = "ou25" ->
               << [key |-> "over",  aliases |-> {"over", "over 2.5", "o2.5", ">2.5"}],
                  [key |-> "under", aliases |-> {"under", "under 2.5", "u2.5", "<2.5"}] >>
          [] kind = "btts" ->
               << [key |-> "yes", aliases |-> {"yes", "gg", "both score", "both teams score"}],
                  [key |-> "no",  aliases |-> {"no", "ng", "not both",
                                               "both teams don't score"}] >> ]

MARKET_IDS ==
    [kind \in MarketKinds |->
        CASE kind = "1x2"  -> {"1", "sr:market:1"}
          [] kind = "ou25" -> {"18", "sr:market:18", "sr:market:18:total=2.5"}
          [] kind = "btts" -> {"10", "sr:market:10"}]

\* A dict of odds: a function from canonical keys to strings.
NoOdds == [key \in {} |-> ""]
Put(target, key, val) ==
    [k \in DOMAIN target \cup {key} |-> IF k = key THEN val ELSE target[k]]

\* _match_alias(value, aliases)
MatchAlias(value, aliases) == Lower(Strip(value)) \in aliases

\* Mutant of the inner loop of _fill_outcomes: "key not in target" is not
\* tested, so that a later outcome replaces the value of its key.
FillOneLastWins(o, target, aliases) ==
    LET desc == Lower(Strip(PyStr(Pick(o, FIELD_MAP.outcome_desc, JStr("")))))
        val  == NormalizeOdd(Pick(o, FIELD_MAP.odd_val, JNull))
        hits == { i \in 1..Len(aliases) : MatchAlias(desc, aliases[i].aliases) }
    IN  IF hits = {} THEN target
        ELSE Put(target, aliases[CHOOSE i \in hits : \A j \in hits : i <= j].key, val)

\* One iteration of the loop of _fill_outcomes, for the outcome o (a dict):
\* the first key in the order of aliases that is not filled and whose
\* aliases hold the label gets the value.
FillOne(o, target, aliases) ==
    LET desc == Lower(Strip(PyStr(Pick(o, FIELD_MAP.outcome_desc, JStr("")))))
        val  == NormalizeOdd(Pick(o, FIELD_MAP.odd_val, JNull))
        hits == { i \in 1..Len(aliases) :
                    /\ aliases[i].key \notin DOMAIN target
                    /\ MatchAlias(desc, aliases[i].aliases) }
    IN  IF hits = {} THEN target
        ELSE Put(target, aliases[CHOOSE i \in hits : \A j \in hits : i <= j].key, val)

\* _fill_outcomes(outcomes, target, aliases): target afterwards, or the
\* AttributeError of _pick on an outcome that is not an object
RECURSIVE FillOutcomes(_, _, _)
FillOutcomes(outcomes, target, aliases) ==
    IF outcomes = <<>> THEN Return(target)
    ELSE IF ~IsDict(Head(outcomes)) THEN Raise(Exc("AttributeError"))
    ELSE FillOutcomes(Tail(outcomes), FillOne(Head(outcomes), target, aliases), aliases)

\* The kind of market raw_id names, or "none".
MarketKind(raw_id) ==
    IF raw_id \in MARKET_IDS["1x2"] THEN "1x2"
    ELSE IF raw_id \in MARKET_IDS["ou25"] THEN "ou25"
    ELSE IF raw_id \in MARKET_IDS["btts"] THEN "btts"
    ELSE "none"

\* The loop of _extract_odds over markets, odds holding the three dicts.
RECURSIVE OddsLoop(_, _)
OddsLoop(markets, odds) ==
    IF markets = <<>> THEN Return(odds)
    ELSE LET market == Head(markets) IN
         IF ~IsDict(market) THEN Raise(Exc("AttributeError"))
         ELSE LET id       == Pick(market, FIELD_MAP.market_id, JStr(""))
                  raw_id   == Lower(PyStr(IF Truthy(id) THEN id ELSE JStr("")))
                  outcomes == Pick(market, FIELD_MAP.outcomes, EmptyList)
                  kind     == MarketKind(raw_id)
              IN  IF ~IsList(outcomes) \/ kind = "none" THEN OddsLoop(Tail(markets), odds)
                  ELSE LET filled == FillOutcomes(outcomes.a, odds[kind],
                                                  OUTCOME_ALIASES[kind]) IN
                       IF filled.tag = "raise" THEN filled
                       ELSE OddsLoop(Tail(markets), [odds EXCEPT ![kind] = filled.val])

\* _extract_odds(event): the three dicts, by kind of market
ExtractOdds(event) ==
    LET markets == Pick(event, FIELD_MAP.markets, EmptyList) IN
    IF ~IsList(markets) THEN Return([kind \in MarketKinds |-> NoOdds])
    ELSE OddsLoop(markets.a, [kind \in MarketKinds |-> NoOdds])

\* _pick(event, keys) or (_pick(event, obj_keys, {}) or {}).get("name")
\* or placeholder
NameOf(event, keys, obj_keys, placeholder) ==
    LET flat == Pick(event, keys, JNull) IN
    IF Truthy(flat) THEN Return(flat)
    ELSE LET picked == Pick(event, obj_keys, EmptyDict)
             obj    == IF Truthy(picked) THEN picked ELSE EmptyDict
         IN  IF ~IsDict(obj) THEN Raise(Exc("AttributeError"))
             ELSE LET name == Get(obj, "name", JNull) IN
                  Return(IF Truthy(name) THEN name ELSE JStr(placeholder))

\* "odds or None"
OrNone(odds) == IF DOMAIN odds = {} THEN JNull ELSE odds

\* Mutant of the returned dict: an empty dict of odds is kept as it is.
MatchDictKeepsEmptyOdds(event_id, home, away, start_ms, league_name, odds) ==
    [event_id  |-> PyStr(event_id),
     home      |-> Truncate(PyStr(home), 28),
     away      |-> Truncate(PyStr(away), 28),
     time      |-> TimeStr(start_ms),
     league    |-> Truncate(PyStr(league_name), 32),
     odds_1x2  |-> odds["1x2"],
     odds_ou   |-> odds["ou25"],
     odds_btts |-> odds["btts"]]

\* The dict _extract_match returns
MatchDict(event_id, home, away, start_ms, league_name, odds) ==
    [event_id  |-> PyStr(event_id),
     home      |-> Truncate(PyStr(home), 28),
     away      |-> Truncate(PyStr(away), 28),
     time      |-> TimeStr(start_ms),
     league    |-> Truncate(PyStr(league_name), 32),
     odds_1x2  |-> OrNone(odds["1x2"]),
     odds_ou   |-> OrNone(odds["ou25"]),
     odds_btts |-> OrNone(odds["btts"])]

\* SportyBetScraper._extract_match(event, league) with all its fields: the
\* dict, None, or the AttributeError of a .get on something not an object
ExtractMatchDict(event, league) ==
    IF ~IsDict(event) THEN Raise(Exc("AttributeError"))
    ELSE LET event_id == Pick(event, FIELD_MAP.event_id, JNull) IN
         IF ~Truthy(event_id) THEN Return(JNull)
         ELSE LET home == NameOf(event, FIELD_MAP.home, FIELD_MAP.home_obj, "Home")
                  away == NameOf(event, FIELD_MAP.away, FIELD_MAP.away_obj, "Away")
                  start_ms == Pick(event, FIELD_MAP.start, JInt(0))
                  league_name ==
                      IF Truthy(league) THEN Return(league)
                      ELSE NameOf(event, FIELD_MAP.league, FIELD_MAP.league_obj, "Football")
                  odds == ExtractOdds(event)
              IN  IF home.tag = "raise" THEN home
                  ELSE IF away.tag = "raise" THEN away
                  ELSE IF league_name.tag = "raise" THEN league_name
                  ELSE IF odds.tag = "raise" THEN odds
                  ELSE Return(MatchDict(event_id, home.val, away.val, start_ms,
                                        league_name.val, odds.val))

---------------------------------------------------------------------------
(* What the upstream can answer to one request                             *)

EventE1   == JObj([eventId |-> JStr("E1")])
EventE2   == JObj([id |-> JInt(2)])
EventNoId == JObj([homeTeamName |-> JStr("Arsenal")])

\* {"bizCode": 0, "data": {"events": [...]}}
DocFlat(events) == JObj([bizCode |-> JInt(0), data |-> JObj([events |-> JArr(events)])])
\* {"data": {"tournaments": [{"name": "EPL", "events": [...]}]}}
DocGrouped(events) ==
    JObj([data |-> JObj([tournaments |->
        JArr(<< JObj([name |-> JStr("EPL"), events |-> JArr(events)]) >>)])])
\* {"data": [...]}
DocDataList(events) == JObj([data |-> JArr(events)])

HtmlText      == Text(TRUE, TRUE, FALSE, JNull)      \* <!DOCTYPE html><html>...
JsonText(doc) == Text(FALSE, FALSE, TRUE, doc)

\* The outcome of one HTTP request: the client raised (exc), or a response
\* with a status and a body arrived.
NetRaised(type)        == [exc |-> type,   status |-> 0,      text |-> HtmlText]
NetResponse(status, t) == [exc |-> "None", status |-> status, text |-> t]

NetOutcome(name) ==
    CASE name = "timeout"  -> NetRaised("TimeoutError")
      [] name = "403"      -> NetResponse(403, HtmlText)
      [] name = "500"      -> NetResponse(500, HtmlText)
      [] name = "array"    -> NetResponse(200, JsonText(JArr(<<EventE1>>)))
      [] name = "empty"    -> NetResponse(200, JsonText(DocFlat(<<>>)))
      [] name = "flat"     -> NetResponse(200, JsonText(DocFlat(<<EventE1, EventNoId>>)))
      [] name = "grouped"  -> NetResponse(200, JsonText(DocGrouped(<<EventE2>>)))
      [] name = "datalist" -> NetResponse(200, JsonText(DocDataList(<<EventE2, EventE1>>)))
      [] name = "badevent" -> NetResponse(200, JsonText(DocFlat(<<EventE1, JInt(5)>>)))

NetOutcomes ==
    {"timeout", "403", "500", "array", "empty", "flat", "grouped", "datalist", "badevent"}

---------------------------------------------------------------------------
(* Dual-strategy transport                                                 *)

Outcome(v) == [tag |-> v.tag, val |-> v.val, exc |-> v.exc]

\* _fetch_curl(url, p) once the request ended as o
FetchCurl(o, url) ==
    IF o.exc # "None" THEN Raise(Exc(o.exc))
    ELSE Outcome(Validate(o.status, o.text, url))

\* _fetch_aiohttp(url, p) once the request ended as o
FetchAiohttp(o, url) ==
    IF o.exc # "None" THEN Raise(Exc(o.exc))
    ELSE Outcome(Validate(o.status, o.text, url))

\* Mutants of the except clauses of _fetch: "except ScraperError: raise" is
\* missing, so that every exception of the curl_cffi attempt falls back;
\* "except Exception" is missing, so that none does.
CurlFallsBackOnAnyRaise(rc) == rc.tag = "raise"

CurlFallsBackNever(rc) == FALSE

\* int(time.time() * 1000), on the model's one clock
TimeMs(t) == t * 1000

\* p after 'p["_t"] = ...'
Stamped(d, t) == [key \in DOMAIN d \cup {"_t"} |-> IF key = "_t" THEN TimeMs(t) ELSE d[key]]

\* Mutant of the first two statements of _fetch: p is the descriptor's dict
\* itself, not a copy of it.
BuildParamsAliased(params, t) == [p |-> Stamped(params, t), params |-> Stamped(params, t)]

\* _fetch, 'p = dict(params); p["_t"] = ...' at time t: the local p, and
\* the caller's dict after the two statements
BuildParams(params, t) == [p |-> Stamped(params, t), params |-> params]

\* _fetch: whether the curl_cffi attempt's outcome sends it on to aiohttp
\* (a ScraperError is re-raised, a document is returned)
CurlFallsBack(rc) == rc.tag = "raise" /\ rc.exc.type # "ScraperError"

---------------------------------------------------------------------------
(* get_today_matches                                                       *)

Callers == {1}

NoAttempt == [curl |-> "none", aio |-> "none"]

NoRet        == [kind |-> "none",  list |-> <<>>, exc |-> NoExc]
RetList(l)   == [kind |-> "list",  list |-> l,    exc |-> NoExc]
RetRaise(e)  == [kind |-> "raise", list |-> <<>>, exc |-> e]

\* A coroutine of get_today_matches:
\*   pc          "idle", "curl" / "aiohttp" (suspended on a request of that
\*               client to ENDPOINTS[idx]), "done"
\*   last_error  the local of the same name (NoExc is None)
\*   ret         what the call returned or raised
\*   hit, att    history: whether the cache served the call, and per
\*               endpoint how the request of each client ended
IdleCall ==
    [pc |-> "idle", force |-> FALSE, idx |-> 0, last_error |-> NoExc, ret |-> NoRet,
     hit |-> FALSE, att |-> [i \in 1..NumEndpoints |-> NoAttempt]]

\* The loop reaches ENDPOINTS[i]: _fetch issues its first request.
StartEndpoint(k, i) ==
    [k EXCEPT !.idx = i, !.pc = IF curlInstalled THEN "curl" ELSE "aiohttp"]

\* The try body after _fetch ended as fetched: matches = _parse(raw, parser)
TryBody(fetched, parser_type) ==
    IF fetched.tag = "raise" THEN fetched ELSE Parse(fetched.val, parser_type)

\* Mutant of "if matches:": any list counts, the empty one too.
SucceededAnyList(body) == body.tag = "return"

\* "if matches:"
Succeeded(body) == body.tag = "return" /\ body.val # <<>>

\* Mutants of the except clauses: an endpoint without matches clears the
\* error recorded before it; "except Exception" comes first and wraps a
\* ScraperError too; the unexpected exception is recorded as it is.
LastErrorAfterResets(last_error, body, url) ==
    IF body.tag # "raise" THEN NoExc
    ELSE IF body.exc.type = "ScraperError" THEN body.exc
    ELSE ScraperError(UnexpectedMsg, body.exc.type, url)

LastErrorAfterWrapsAll(last_error, body, url) ==
    IF body.tag # "raise" THEN last_error
    ELSE ScraperError(UnexpectedMsg, body.exc.type, url)

LastErrorAfterRaw(last_error, body, url) ==
    IF body.tag # "raise" THEN last_error ELSE body.exc

\* The except clauses: last_error after the try body ended as body
LastErrorAfter(last_error, body, url) ==
    IF body.tag # "raise" THEN last_error
    ELSE IF body.exc.type = "ScraperError" THEN body.exc
    ELSE ScraperError(UnexpectedMsg, body.exc.type, url)

\* "raise last_error or ScraperError(...)"
FinalError(last_error) ==
    IF last_error # NoExc THEN last_error
    ELSE ScraperError(ExhaustedMsg, "None", "None")

\* Mutants of the loop: a success is cached but the loop goes on to the
\* next endpoint; a failed endpoint ends the call with its error.
EndpointDoneKeepsGoing(c, k, fetched) ==
    LET ep   == ENDPOINTS[k.idx]
        body == TryBody(fetched, ep.parser)
        k2   == [k EXCEPT !.last_error = LastErrorAfter(k.last_error, body, ep.url)]
    IN  /\ cache' = IF Succeeded(body) THEN CacheSet(cache, body.val, now) ELSE cache
        /\ call' = [call EXCEPT ![c] =
               IF k.idx < NumEndpoints THEN StartEndpoint(k2, k.idx + 1)
               ELSE IF Succeeded(body) THEN [k EXCEPT !.pc = "done", !.ret = RetList(body.val)]
               ELSE [k2 EXCEPT !.pc = "done", !.ret = RetRaise(FinalError(k2.last_error))]]

EndpointDoneStopsOnError(c, k, fetched) ==
    LET ep   == ENDPOINTS[k.idx]
        body == TryBody(fetched, ep.parser)
        k2   == [k EXCEPT !.last_error = LastErrorAfter(k.last_error, body, ep.url)]
    IN  IF Succeeded(body) THEN
            /\ cache' = CacheSet(cache, body.val, now)
            /\ call' = [call EXCEPT ![c] = [k EXCEPT !.pc = "done", !.ret = RetList(body.val)]]
        ELSE
            /\ cache' = cache
            /\ call' = [call EXCEPT ![c] =
                   IF k.idx < NumEndpoints /\ body.tag # "raise"
                   THEN StartEndpoint(k2, k.idx + 1)
                   ELSE [k2 EXCEPT !.pc = "done", !.ret = RetRaise(FinalError(k2.last_error))]]

\* Mutant of the loop: the first endpoint that fails is tried once more
\* before the loop moves on.
EndpointDoneRetriesFirstFailure(c, k, fetched) ==
    LET ep   == ENDPOINTS[k.idx]
        body == TryBody(fetched, ep.parser)
    IN  IF Succeeded(body) THEN
            /\ cache' = CacheSet(cache, body.val, now)
            /\ call' = [call EXCEPT ![c] = [k EXCEPT !.pc = "done", !.ret = RetList(body.val)]]
        ELSE
            LET k2 == [k EXCEPT !.last_error = LastErrorAfter(k.last_error, body, ep.url)] IN
            /\ cache' = cache
            /\ call' = [call EXCEPT ![c] =
                   IF body.tag = "raise" /\ k.last_error = NoExc THEN StartEndpoint(k2, k.idx)
                   ELSE IF k.idx < NumEndpoints THEN StartEndpoint(k2, k.idx + 1)
                   ELSE [k2 EXCEPT !.pc = "done", !.ret = RetRaise(FinalError(k2.last_error))]]

\* Mutant of the loop: a call that succeeds leaves a cache that another
\* call has filled in the meantime as it is.
EndpointDoneKeepsFreshCache(c, k, fetched) ==
    LET ep   == ENDPOINTS[k.idx]
        body == TryBody(fetched, ep.parser)
    IN  IF Succeeded(body) THEN
            /\ cache' = IF CacheGet(cache, now).none
                        THEN CacheSet(cache, body.val, now) ELSE cache
            /\ call' = [call EXCEPT ![c] = [k EXCEPT !.pc = "done", !.ret = RetList(body.val)]]
        ELSE
            LET k2 == [k EXCEPT !.last_error = LastErrorAfter(k.last_error, body, ep.url)] IN
            /\ cache' = cache
            /\ call' = [call EXCEPT ![c] =
                   IF k.idx < NumEndpoints THEN StartEndpoint(k2, k.idx + 1)
                   ELSE [k2 EXCEPT !.pc = "done", !.ret = RetRaise(FinalError(k2.last_error))]]

\* Mutant of the loop: a call that has exhausted the chain empties the
\* cache before it raises.
EndpointDoneInvalidatesOnFailure(c, k, fetched) ==
    LET ep   == ENDPOINTS[k.idx]
        body == TryBody(fetched, ep.parser)
    IN  IF Succeeded(body) THEN
            /\ cache' = CacheSet(cache, body.val, now)
            /\ call' = [call EXCEPT ![c] = [k EXCEPT !.pc = "done", !.ret = RetList(body.val)]]
        ELSE
            LET k2 == [k EXCEPT !.last_error = LastErrorAfter(k.last_error, body, ep.url)] IN
            /\ cache' = IF k.idx < NumEndpoints THEN cache ELSE CacheInvalidate(cache)
            /\ call' = [call EXCEPT ![c] =
                   IF k.idx < NumEndpoints THEN StartEndpoint(k2, k.idx + 1)
                   ELSE [k2 EXCEPT !.pc = "done", !.ret = RetRaise(FinalError(k2.last_error))]]

\* Mutant of the loop: the list of every parse that returned is stored,
\* the empty one too, before "if matches:" decides whether the call ends.
EndpointDoneCachesEveryParse(c, k, fetched) ==
    LET ep   == ENDPOINTS[k.idx]
        body == TryBody(fetched, ep.parser)
    IN  IF Succeeded(body) THEN
            /\ cache' = CacheSet(cache, body.val, now)
            /\ call' = [call EXCEPT ![c] = [k EXCEPT !.pc = "done", !.ret = RetList(body.val)]]
        ELSE
            LET k2 == [k EXCEPT !.last_error = LastErrorAfter(k.last_error, body, ep.url)] IN
            /\ cache' = IF body.tag = "return" THEN CacheSet(cache, body.val, now) ELSE cache
            /\ call' = [call EXCEPT ![c] =
                   IF k.idx < NumEndpoints THEN StartEndpoint(k2, k.idx + 1)
                   ELSE [k2 EXCEPT !.pc = "done", !.ret = RetRaise(FinalError(k2.last_error))]]

\* One iteration of the loop from the point where _fetch ended as fetched,
\* for caller c whose coroutine is k.
EndpointDone(c, k, fetched) ==
    LET ep   == ENDPOINTS[k.idx]
        body == TryBody(fetched, ep.parser)
    IN  IF Succeeded(body) THEN
            /\ cache' = CacheSet(cache, body.val, now)
            /\ call' = [call EXCEPT ![c] = [k EXCEPT !.pc = "done", !.ret = RetList(body.val)]]
        ELSE
            LET k2 == [k EXCEPT !.last_error = LastErrorAfter(k.last_error, body, ep.url)] IN
            /\ cache' = cache
            /\ call' = [call EXCEPT ![c] =
                   IF k.idx < NumEndpoints THEN StartEndpoint(k2, k.idx + 1)
                   ELSE [k2 EXCEPT !.pc = "done", !.ret = RetRaise(FinalError(k2.last_error))]]

\* get_today_matches(force_refresh) is called: the cache lookup, and on a
\* miss the first request.
Call(c, force_refresh) ==
    /\ call[c].pc = "idle"
    /\ LET cached == IF force_refresh THEN NoneList ELSE CacheGet(cache, now)
           k      == [IdleCall EXCEPT !.force = force_refresh]
       IN  call' = [call EXCEPT ![c] =
               IF ~cached.none
               THEN [k EXCEPT !.pc = "done", !.hit = TRUE, !.ret = RetList(cached.list)]
               ELSE StartEndpoint(k, 1)]
    /\ UNCHANGED <<cache, now, curlInstalled, got, vIn, vOut, fetch, xIn, xOut, user_selections, update, fj, gen>>

\* The curl_cffi request of caller c ends as the outcome named name.
CurlResponds(c, name) ==
    /\ call[c].pc = "curl"
    /\ LET k  == [call[c] EXCEPT !.att[call[c].idx].curl = name]
           rc == FetchCurl(NetOutcome(name), ENDPOINTS[k.idx].url)
       IN  IF CurlFallsBack(rc)
           THEN /\ call' = [call EXCEPT ![c] = [k EXCEPT !.pc = "aiohttp"]]
                /\ cache' = cache
           ELSE EndpointDone(c, k, rc)
    /\ UNCHANGED <<now, curlInstalled, got, vIn, vOut, fetch, xIn, xOut, user_selections, update, fj, gen>>

\* The aiohttp request of caller c ends as the outcome named name.
AiohttpResponds(c, name) ==
    /\ call[c].pc = "aiohttp"
    /\ LET k == [call[c] EXCEPT !.att[call[c].idx].aio = name] IN
       EndpointDone(c, k, FetchAiohttp(NetOutcome(name), ENDPOINTS[k.idx].url))
    /\ UNCHANGED <<now, curlInstalled, got, vIn, vOut, fetch, xIn, xOut, user_selections, update, fj, gen>>

\* The caller has its result; it may call again.
Complete(c) ==
    /\ call[c].pc = "done"
    /\ call' = [call EXCEPT ![c] = IdleCall]
    /\ UNCHANGED <<cache, now, curlInstalled, got, vIn, vOut, fetch, xIn, xOut, user_selections, update, fj, gen>>

\* time.monotonic() advances.
Tick(d) ==
    /\ now + d <= MaxTime
    /\ now' = now + d
    /\ UNCHANGED <<cache, curlInstalled, call, got, vIn, vOut, fetch, xIn, xOut, user_selections, update, fj, gen>>

\* got: history of the direct use of the cache
\*   written  the list the last set stored and when (an invalidate stores
\*            the empty list); op: the last of set / invalidate made;
\*            inv: an invalidate was made and no set of a non-empty list
\*            since; last_set: the argument and time of the last set
\*   made     whether a get has been made; at, result: its time and result;
\*   before   "written" as it was when that get was made
NoSet   == [list |-> <<>>, at |-> 0]
NoWrite == [list |-> <<>>, at |-> 0, op |-> "none", inv |-> FALSE, last_set |-> NoSet]
NoGet   == [written |-> NoWrite, made |-> FALSE, at |-> 0, result |-> NoneList,
            before |-> NoWrite]
\* fetch: the params dicts of the descriptors, and the _fetch in progress
\*   descr    ENDPOINTS[i]["params"] as it is now
\*   pc       "idle", or the client whose request _fetch is suspended on
\*   i, p     the descriptor fetched and the local p
\*   sent     history: the last request sent; started: when _fetch was
\*            called; fetches: how many calls were made
NoRequest == [via |-> "none", url |-> "None", params |-> <<>>]
NoFetch ==
    [descr |-> [i \in 1..NumEndpoints |-> ENDPOINTS[i].params], pc |-> "idle", i |-> 0,
     p |-> <<>>, sent |-> NoRequest, started |-> 0, fetches |-> 0]

\* The values of the variables of bot.py, sportybet.py and booking.py while
\* nothing of them has run: user_selections = {}, no update handled, no
\* fetch_json and no generate called.
NoSelections == <<>>
NoUpdate     == [user_id |-> 0, data |-> "", raised |-> "None", before |-> <<>>]
NoFetchJson  ==
    [pc |-> "idle", method |-> "GET", retries |-> 0, attempt |-> 0, log |-> <<>>,
     slept |-> <<>>, ret |-> "unset"]
NoGenerate   ==
    [pc |-> "idle", selections |-> <<>>, sent |-> <<>>,
     out |-> [tag |-> "none", val |-> JNull, exc |-> NoExc]]

NoExtractIn  == [event |-> JNull, league |-> JNull, doc |-> JNull]
NoExtractOut == [done |-> FALSE, tag |-> "none", val |-> JNull, exc |-> NoExc]
NoValidateIn  == [status |-> 0, text |-> HtmlText, url |-> "None"]
NoValidateOut == [done |-> FALSE, tag |-> "none", val |-> JNull, exc |-> NoExc, decoded |-> FALSE]

Init ==
    /\ cache = CacheInit
    /\ now = 0
    /\ curlInstalled \in BOOLEAN
    /\ call = [c \in Callers |-> IdleCall]
    /\ got = NoGet
    /\ vIn = NoValidateIn
    /\ vOut = NoValidateOut
    /\ fetch = NoFetch
    /\ xIn = NoExtractIn
    /\ xOut = NoExtractOut
    /\ user_selections = NoSelections
    /\ update = NoUpdate
    /\ fj = NoFetchJson
    /\ gen = NoGenerate

Next ==
    \/ \E c \in Callers, force_refresh \in BOOLEAN : Call(c, force_refresh)
    \/ \E c \in Callers, name \in NetOutcomes : CurlResponds(c, name)
    \/ \E c \in Callers, name \in NetOutcomes : AiohttpResponds(c, name)
    \/ \E c \in Callers : Complete(c)
    \/ \E d \in TickSteps : Tick(d)

Spec == Init /\ [][Next]_vars

---------------------------------------------------------------------------
(* Concurrent calls                                                        *)

\* Two coroutines of get_today_matches on one event loop share _match_cache.
\* A coroutine gives up control only at an await, that is while a request
\* is in flight; the steps between two awaits are one action, as in Spec.
\* The upstream outcomes are narrowed to those that decide whether and
\* what a call writes.
ConcCallers == {1, 2}

ConcOutcomes == {"403", "empty", "flat", "grouped"}

InitConc ==
    /\ cache = CacheInit
    /\ now = 0
    /\ curlInstalled \in BOOLEAN
    /\ call = [c \in ConcCallers |-> IdleCall]
    /\ got = NoGet
    /\ vIn = NoValidateIn
    /\ vOut = NoValidateOut
    /\ fetch = NoFetch
    /\ xIn = NoExtractIn
    /\ xOut = NoExtractOut
    /\ user_selections = NoSelections
    /\ update = NoUpdate
    /\ fj = NoFetchJson
    /\ gen = NoGenerate

NextConc ==
    \/ \E c \in ConcCallers, force_refresh \in BOOLEAN : Call(c, force_refresh)
    \/ \E c \in ConcCallers, name \in ConcOutcomes : CurlResponds(c, name)
    \/ \E c \in ConcCallers, name \in ConcOutcomes : AiohttpResponds(c, name)
    \/ \E c \in ConcCallers : Complete(c)
    \/ \E d \in TickSteps : Tick(d)

SpecConc == InitConc /\ [][NextConc]_vars

---------------------------------------------------------------------------
(* The cache used directly                                                 *)

CacheLists == {<<>>, <<Match("E1")>>, <<Match("2"), Match("E1")>>}

DirectGet ==
    /\ got' = [got EXCEPT !.made = TRUE, !.at = now, !.result = CacheGet(cache, now),
                          !.before = got.written]
    /\ UNCHANGED <<cache, now, curlInstalled, call, vIn, vOut, fetch, xIn, xOut, user_selections, update, fj, gen>>

DirectSet(matches) ==
    /\ cache' = CacheSet(cache, matches, now)
    /\ got' = [got EXCEPT !.written =
                  [list |-> matches, at |-> now, op |-> "set",
                   inv |-> got.written.inv /\ matches = <<>>,
                   last_set |-> [list |-> matches, at |-> now]]]
    /\ UNCHANGED <<now, curlInstalled, call, vIn, vOut, fetch, xIn, xOut, user_selections, update, fj, gen>>

DirectInvalidate ==
    /\ cache' = CacheInvalidate(cache)
    /\ got' = [got EXCEPT !.written =
                  [list |-> <<>>, at |-> now, op |-> "invalidate", inv |-> TRUE,
                   last_set |-> got.written.last_set]]
    /\ UNCHANGED <<now, curlInstalled, call, vIn, vOut, fetch, xIn, xOut, user_selections, update, fj, gen>>

NextCache ==
    \/ DirectGet
    \/ \E matches \in CacheLists : DirectSet(matches)
    \/ DirectInvalidate
    \/ \E d \in TickSteps : Tick(d)

SpecCache == Init /\ [][NextCache]_vars

---------------------------------------------------------------------------
(* The validator applied to every input                                    *)

Statuses == {200, 204, 403, 404, 429, 500}

ValidateDocs ==
    { EmptyDict,
      JArr(<<EventE1>>),
      JNull,
      DocFlat(<<EventE1>>),
      JObj([bizCode |-> JInt(10000), message |-> JStr("denied")]),
      JObj([code |-> JInt(500)]),
      JObj([bizCode |-> JInt(0), code |-> JInt(500)]),
      JObj([bizCode |-> JStr("0")]),
      JObj([bizCode |-> JNull, code |-> JInt(7)]) }

ValidateTexts ==
    { HtmlText,                                                  \* <!DOCTYPE html>...
      Text(FALSE, TRUE, FALSE, JNull),                           \* <html>...
      Text(FALSE, TRUE, TRUE, JObj([message |-> JStr("<html>")])), \* JSON quoting "<html"
      Text(FALSE, FALSE, FALSE, JNull) }                         \* neither HTML nor JSON
    \cup { JsonText(doc) : doc \in ValidateDocs }

ValidateUrls == { ENDPOINTS[i].url : i \in 1..NumEndpoints }

InitValidate ==
    /\ cache = CacheInit
    /\ now = 0
    /\ curlInstalled = TRUE
    /\ call = [c \in Callers |-> IdleCall]
    /\ got = NoGet
    /\ vIn \in [status : Statuses, text : ValidateTexts, url : ValidateUrls]
    /\ vOut = NoValidateOut
    /\ fetch = NoFetch
    /\ xIn = NoExtractIn
    /\ xOut = NoExtractOut
    /\ user_selections = NoSelections
    /\ update = NoUpdate
    /\ fj = NoFetchJson
    /\ gen = NoGenerate

ValidateStep ==
    /\ ~vOut.done
    /\ LET v == Validate(vIn.status, vIn.text, vIn.url) IN
       vOut' = [done |-> TRUE, tag |-> v.tag, val |-> v.val, exc |-> v.exc,
                decoded |-> v.decoded]
    /\ UNCHANGED <<cache, now, curlInstalled, call, got, vIn, fetch, xIn, xOut, user_selections, update, fj, gen>>

NextValidate == ValidateStep

SpecValidate == InitValidate /\ [][NextValidate]_vars

---------------------------------------------------------------------------
(* History of a call, read back from its record                            *)

Url(i)    == ENDPOINTS[i].url
Parser(i) == ENDPOINTS[i].parser

\* The number of requests the call k has issued to ENDPOINTS[i], those in
\* flight included.
Requests(k, i) ==
    (IF k.att[i].curl # "none" \/ (k.idx = i /\ k.pc = "curl") THEN 1 ELSE 0)
    + (IF k.att[i].aio # "none" \/ (k.idx = i /\ k.pc = "aiohttp") THEN 1 ELSE 0)

NoRequests(k) == \A i \in 1..NumEndpoints : Requests(k, i) = 0

\* _fetch has ended for ENDPOINTS[i]: a request ended and did not send
\* _fetch on to the other client.
FetchEnded(k, i) ==
    \/ k.att[i].aio # "none"
    \/ /\ k.att[i].curl # "none"
       /\ ~CurlFallsBack(FetchCurl(NetOutcome(k.att[i].curl), Url(i)))

\* How _fetch ended for ENDPOINTS[i], and how the try body ended.
FetchResult(k, i) ==
    IF k.att[i].aio # "none" THEN FetchAiohttp(NetOutcome(k.att[i].aio), Url(i))
    ELSE FetchCurl(NetOutcome(k.att[i].curl), Url(i))

BodyResult(k, i) == TryBody(FetchResult(k, i), Parser(i))

\* ENDPOINTS[i] yielded a non-empty list; it failed; it yielded no match.
Yielded(k, i) ==
    FetchEnded(k, i) /\ BodyResult(k, i).tag = "return" /\ BodyResult(k, i).val # <<>>
Failed(k, i)  == FetchEnded(k, i) /\ BodyResult(k, i).tag = "raise"
Empty(k, i)   ==
    FetchEnded(k, i) /\ BodyResult(k, i).tag = "return" /\ BodyResult(k, i).val = <<>>

MaxOf(S) == CHOOSE x \in S : \A y \in S : y <= x

---------------------------------------------------------------------------
(* _fetch called directly                                                  *)

\* _fetch(ENDPOINTS[i]["url"], ENDPOINTS[i]["params"]) is called: p is built
\* and the first request goes out with it.
FetchCall(i) ==
    /\ fetch.pc = "idle"
    /\ fetch.fetches < MaxFetches
    /\ LET b   == BuildParams(fetch.descr[i], now)
           via == IF curlInstalled THEN "curl" ELSE "aiohttp"
       IN  fetch' = [descr   |-> [fetch.descr EXCEPT ![i] = b.params],
                     pc      |-> via,
                     i       |-> i,
                     p       |-> b.p,
                     sent    |-> [via |-> via, url |-> Url(i), params |-> b.p],
                     started |-> now,
                     fetches |-> fetch.fetches + 1]
    /\ UNCHANGED <<cache, now, curlInstalled, call, got, vIn, vOut, xIn, xOut, user_selections, update, fj, gen>>

\* The curl_cffi request ends as the outcome named name: _fetch ends, or
\* sends the aiohttp request with the same p.
FetchCurlEnds(name) ==
    /\ fetch.pc = "curl"
    /\ fetch' =
          IF CurlFallsBack(FetchCurl(NetOutcome(name), Url(fetch.i)))
          THEN [fetch EXCEPT !.pc = "aiohttp",
                             !.sent = [via |-> "aiohttp", url |-> Url(fetch.i),
                                       params |-> fetch.p]]
          ELSE [fetch EXCEPT !.pc = "idle"]
    /\ UNCHANGED <<cache, now, curlInstalled, call, got, vIn, vOut, xIn, xOut, user_selections, update, fj, gen>>

\* The aiohttp request ends: _fetch ends.
FetchAiohttpEnds(name) ==
    /\ fetch.pc = "aiohttp"
    /\ fetch' = [fetch EXCEPT !.pc = "idle"]
    /\ UNCHANGED <<cache, now, curlInstalled, call, got, vIn, vOut, xIn, xOut, user_selections, update, fj, gen>>

NextFetch ==
    \/ \E i \in 1..NumEndpoints : FetchCall(i)
    \/ \E name \in NetOutcomes : FetchCurlEnds(name)
    \/ \E name \in NetOutcomes : FetchAiohttpEnds(name)
    \/ \E d \in TickSteps : Tick(d)

SpecFetch == Init /\ [][NextFetch]_vars

---------------------------------------------------------------------------
(* The extraction applied to every event of a bounded set                  *)

\* s repeated n times
RECURSIVE Repeat(_, _)
Repeat(s, n) == IF n = 0 THEN "" ELSE s \o Repeat(s, n - 1)

NoKeys == [key \in {} |-> JNull]

\* The dict with the items of f and of g.
Merge(f, g) == [key \in DOMAIN f \cup DOMAIN g |-> IF key \in DOMAIN g THEN g[key] ELSE f[key]]

\* One outcome of a market: {"desc": desc, "odds": odds}
OutcomeOf(desc, odds) == JObj([desc |-> JStr(desc), odds |-> odds])

\* One market: {"id": id, "outcomes": outcomes}
MarketOf(id, outcomes) == JObj([id |-> id, outcomes |-> outcomes])

\* The parts an event is put together from: its identifier, ...
IdParts ==
    { NoKeys,
      [eventId |-> JStr("E1")],
      [id |-> JInt(7)],
      [matchId |-> JStr("M9")],
      [eventId |-> JStr("")],
      [eventId |-> JInt(0), id |-> JStr("E1")] }

\* ... its names and league, flat, as objects, or as a string where an
\* object is expected, ...
NameParts ==
    { NoKeys,
      [homeTeamName |-> JStr("Arsenal"), awayName |-> JStr("Chelsea"),
       tournamentName |-> JStr("Premier League")],
      [home |-> JObj([name |-> JStr("Arsenal")]), away |-> JObj([id |-> JInt(3)]),
       league |-> JObj([name |-> JStr("Serie A")])],
      [home |-> JStr("Arsenal")] }

\* ... its start time in milliseconds, ...
StartParts ==
    { NoKeys,
      [estimateStartTime |-> JInt(3660000)],
      [startTime |-> JStr("86399000")],
      [estimateStartTime |-> JStr("abc")],
      [estimateStartTime |-> JNull, kickOffTime |-> EmptyDict] }

\* ... and its markets.
MarketParts ==
    { NoKeys,
      [markets |-> JArr(<<
          MarketOf(JStr("1"), JArr(<< OutcomeOf("W1", JStr("2.5")),
                                      OutcomeOf("1", JStr("3")),
                                      OutcomeOf("Home Win", JInt(4)),
                                      OutcomeOf(" X ", JStr("N/A")),
                                      JObj([desc |-> JStr("2")]) >>)) >>)],
      [markets |-> JArr(<<
          MarketOf(JStr("1"), JArr(<< OutcomeOf("Draw", JFloat(310)) >>)),
          MarketOf(JStr("SR:MARKET:1"), JArr(<< OutcomeOf("tie", JFloat(999)),
                                                OutcomeOf("2 (Away)", JFloat(250)) >>)),
          MarketOf(JInt(18), JArr(<< OutcomeOf("Over 2.5", JStr("1.85")),
                                     OutcomeOf("under", JInt(2)) >>)),
          MarketOf(JStr("10"), JArr(<< OutcomeOf("GG", JStr(" 1.7 ")) >>)) >>)],
      [markets |-> JArr(<<
          MarketOf(JStr("18"), JArr(<< OutcomeOf("handicap", JStr("1.5")) >>)),
          MarketOf(JStr("99"), JArr(<< OutcomeOf("yes", JStr("1.5")) >>)),
          MarketOf(JStr("10"), JObj([yes |-> JStr("1.5")])) >>)],
      [markets |-> JObj([id |-> JStr("1")])],
      [markets |-> JArr(<< JInt(5) >>)],
      [oddsMap |-> JArr(<< MarketOf(JStr("1"), JArr(<< JStr("1.5") >>)) >>)] }

\* The events with names of every length up to the bound.
EventsWithLongNames ==
    { JObj([eventId |-> JStr("E1"),
            homeTeamName |-> JStr(Repeat("A", n)),
            away |-> JObj([name |-> JStr(Repeat("B", n))]),
            leagueName |-> JStr(Repeat("L", n))]) : n \in 1..MaxNameLen }

ExtractEvents ==
    { JObj(Merge(Merge(i, n), Merge(t, m))) :
        i \in IdParts, n \in NameParts, t \in StartParts, m \in MarketParts }
    \cup EventsWithLongNames
    \cup { JInt(5), JStr("E1"), EmptyList }

\* The league the grouped parser passes on, or None.
ExtractLeagues == { JNull, JStr("La Liga"), JStr(Repeat("L", MaxNameLen)) }

InitExtract ==
    /\ cache = CacheInit
    /\ now = 0
    /\ curlInstalled = TRUE
    /\ call = [c \in Callers |-> IdleCall]
    /\ got = NoGet
    /\ vIn = NoValidateIn
    /\ vOut = NoValidateOut
    /\ fetch = NoFetch
    /\ xIn \in [event : ExtractEvents, league : ExtractLeagues, doc : {JNull}]
    /\ xOut = NoExtractOut
    /\ user_selections = NoSelections
    /\ update = NoUpdate
    /\ fj = NoFetchJson
    /\ gen = NoGenerate

ExtractStep ==
    /\ ~xOut.done
    /\ LET r == ExtractMatchDict(xIn.event, xIn.league) IN
       xOut' = [done |-> TRUE, tag |-> r.tag, val |-> r.val, exc |-> r.exc]
    /\ UNCHANGED <<cache, now, curlInstalled, call, got, vIn, vOut, fetch, xIn, user_selections, update, fj, gen>>

NextExtract == ExtractStep

SpecExtract == InitExtract /\ [][NextExtract]_vars

---------------------------------------------------------------------------
(* The flat-list parser applied to documents                               *)

\* The events of the documents: two with an identifier, one without, one
\* whose first identifier key holds 0 while a later one holds "E1", and
\* one that is a number where an object is expected.
ParseEvents ==
    { EventE1, EventE2, EventNoId, JObj([eventId |-> JInt(0), id |-> JStr("E1")]),
      JInt(5) }

\* The sequences over S of length at most n.
SeqsUpTo(S, n) == UNION { [1..len -> S] : len \in 0..n }

ParseDocs ==
    { DocFlat(events) : events \in SeqsUpTo(ParseEvents, MaxEvents) }
    \cup { DocDataList(events) : events \in SeqsUpTo(ParseEvents, 1) }

InitParse ==
    /\ cache = CacheInit
    /\ now = 0
    /\ curlInstalled = TRUE
    /\ call = [c \in Callers |-> IdleCall]
    /\ got = NoGet
    /\ vIn = NoValidateIn
    /\ vOut = NoValidateOut
    /\ fetch = NoFetch
    /\ xIn \in [event : {JNull}, league : {JNull}, doc : ParseDocs]
    /\ xOut = NoExtractOut
    /\ user_selections = NoSelections
    /\ update = NoUpdate
    /\ fj = NoFetchJson
    /\ gen = NoGenerate

ParseStep ==
    /\ ~xOut.done
    /\ LET r == ParseHighlights(xIn.doc) IN
       xOut' = [done |-> TRUE, tag |-> r.tag, val |-> r.val, exc |-> r.exc]
    /\ UNCHANGED <<cache, now, curlInstalled, call, got, vIn, vOut, fetch, xIn, user_selections, update, fj, gen>>

NextParse == ParseStep

SpecParse == InitParse /\ [][NextParse]_vars

---------------------------------------------------------------------------
(* The betslip of the Telegram bot                                         *)

\* s.startswith(p)
StartsWith(s, p) == Len(s) >= Len(p) /\ SubSeq(s, 1, Len(p)) = p

\* The position of the first sep in s, or 0; sep is one character.
Find(s, sep) ==
    IF \E i \in 1..Len(s) : CharAt(s, i) = sep
    THEN CHOOSE i \in 1..Len(s) : CharAt(s, i) = sep /\ \A j \in 1..(i - 1) : CharAt(s, j) # sep
    ELSE 0

\* s.split(sep)
RECURSIVE SplitOn(_, _)
SplitOn(s, sep) ==
    IF Find(s, sep) = 0 THEN <<s>>
    ELSE <<SubSeq(s, 1, Find(s, sep) - 1)>> \o SplitOn(SubSeq(s, Find(s, sep) + 1, Len(s)), sep)

\* s.split(sep, 1)[1], for s that holds sep
AfterFirst(s, sep) == SubSeq(s, Find(s, sep) + 1, Len(s))

\* s.rfind(sub) counted from 1, or 0 where Python gives -1
Rfind(s, sub) ==
    LET at == { i \in 1..(Len(s) - Len(sub) + 1) : SubSeq(s, i, i + Len(sub) - 1) = sub }
    IN  IF at = {} THEN 0 ELSE CHOOSE i \in at : \A j \in at : j <= i

\* "del d[key]"
Del(d, key) == [k \in DOMAIN d \ {key} |-> d[k]]

\* d.get(key, default)
GetOr(d, key, default) == IF key \in DOMAIN d THEN d[key] ELSE default

\* The callback data of the buttons show_match_markets puts under a match:
\* f"pick_|{event_id}|{market}|{pick}|{o.get(key, '1')}|{home}vs{away}"
PickData(match, market, pick_value, odds, key) ==
    "pick_|" \o match.event_id \o "|" \o market \o "|" \o pick_value \o "|"
    \o GetOr(odds, key, "1") \o "|" \o match.home \o "vs" \o match.away

\* "if match.get('odds_1x2')": the row of a market is shown when its odds
\* are a non-empty dict.
HasOdds(odds) == ~("t" \in DOMAIN odds) /\ DOMAIN odds # {}

MarketButtons(match) ==
    (IF HasOdds(match.odds_1x2)
     THEN { PickData(match, "1X2", "1", match.odds_1x2, "home"),
            PickData(match, "1X2", "X", match.odds_1x2, "draw"),
            PickData(match, "1X2", "2", match.odds_1x2, "away") }
     ELSE {})
    \cup
    (IF HasOdds(match.odds_ou)
     THEN { PickData(match, "OU25", "Over", match.odds_ou, "over"),
            PickData(match, "OU25", "Under", match.odds_ou, "under") }
     ELSE {})
    \cup
    (IF HasOdds(match.odds_btts)
     THEN { PickData(match, "BTTS", "Yes", match.odds_btts, "yes"),
            PickData(match, "BTTS", "No", match.odds_btts, "no") }
     ELSE {})

\* "user_selections[user_id] = {}" of clear_all and of clear_command
Clear(selections, user_id) == Put(selections, user_id, <<>>)

\* Mutant of the key of a selection: the market is part of the key.
PickKeyWithMarket(event_id, market) == event_id \o "/" \o market

\* "sel_key = event_id"
PickKey(event_id, market) == event_id

\* The pick_ branch of button_handler for six parts: the new
\* user_selections, and the ValueError of float(odd) if it raised, which it
\* does after the user's dict was created and before the selection is
\* stored.
ButtonPick(selections, user_id, parts) ==
    LET event_id   == parts[2]
        market     == parts[3]
        pick_value == parts[4]
        odd        == FloatOfStr(parts[5])
        teams      == parts[6]
        vs_idx     == Rfind(teams, "vs")
        home       == IF vs_idx = 0 THEN teams ELSE Strip(SubSeq(teams, 1, vs_idx - 1))
        away       == IF vs_idx = 0 THEN "Away" ELSE Strip(SubSeq(teams, vs_idx + 2, Len(teams)))
        created    == IF user_id \in DOMAIN selections THEN selections
                      ELSE Put(selections, user_id, <<>>)
    IN  IF ~odd.ok THEN [selections |-> created, raised |-> "ValueError"]
        ELSE [selections |->
                 Put(created, user_id,
                     Put(created[user_id], PickKey(event_id, market),
                         [event_id |-> event_id, market |-> market, pick |-> pick_value,
                          odd |-> odd.h, teams |-> home \o " vs " \o away])),
              raised |-> "None"]

\* button_handler for the callback data of user user_id, as far as
\* user_selections goes (the branches noop, page_, match_, view_selections
\* and generate_code only read it).
ButtonHandler(selections, user_id, data) ==
    IF data = "noop" \/ StartsWith(data, "page_") \/ StartsWith(data, "match_")
    THEN [selections |-> selections, raised |-> "None"]
    ELSE IF StartsWith(data, "pick_") THEN
        IF Len(SplitOn(data, "|")) = 6 THEN ButtonPick(selections, user_id, SplitOn(data, "|"))
        ELSE [selections |-> selections, raised |-> "None"]
    ELSE IF data = "clear_all" THEN
        [selections |-> Clear(selections, user_id), raised |-> "None"]
    ELSE IF StartsWith(data, "remove_") THEN
        LET event_id == AfterFirst(data, "_") IN
        [selections |->
            IF user_id \in DOMAIN selections /\ event_id \in DOMAIN selections[user_id]
            THEN Put(selections, user_id, Del(selections[user_id], event_id))
            ELSE selections,
         raised |-> "None"]
    ELSE [selections |-> selections, raised |-> "None"]

\* The matches the bot has shown: results of the extraction.
BotEvents ==
    << JObj([eventId |-> JStr("E1"), homeTeamName |-> JStr("Arsenal"),
             awayTeamName |-> JStr("Elvsborg"),
             markets |-> JArr(<<
                 MarketOf(JStr("1"), JArr(<< OutcomeOf("1", JStr("2.5")),
                                             OutcomeOf("X", JStr("N/A")) >>)),
                 MarketOf(JStr("10"), JArr(<< OutcomeOf("Yes", JFloat(180)),
                                              OutcomeOf("No", JInt(2)) >>)) >>)]),
       JObj([id |-> JInt(2),
             markets |-> JArr(<<
                 MarketOf(JInt(18), JArr(<< OutcomeOf("Over", JStr("1.85")),
                                            OutcomeOf("Under", JStr("1.95")) >>)) >>)]),
       JObj([eventId |-> JStr("A|B"),
             markets |-> JArr(<<
                 MarketOf(JStr("1"), JArr(<< OutcomeOf("1", JStr("2.5")) >>)) >>)]) >>

BotMatches == [i \in 1..Len(BotEvents) |-> ExtractMatchDict(BotEvents[i], JNull).val]

\* The telegram users, and the callback data a user can send: a button of
\* any message the bot has shown.
Users == {1, 2}

CallbackData ==
    UNION { MarketButtons(BotMatches[i]) : i \in 1..Len(BotMatches) }
    \cup { "remove_" \o BotMatches[i].event_id : i \in 1..Len(BotMatches) }
    \cup { "noop", "page_0", "clear_all", "generate_code" }

InitBot ==
    /\ cache = CacheInit
    /\ now = 0
    /\ curlInstalled = TRUE
    /\ call = [c \in Callers |-> IdleCall]
    /\ got = NoGet
    /\ vIn = NoValidateIn
    /\ vOut = NoValidateOut
    /\ fetch = NoFetch
    /\ xIn = NoExtractIn
    /\ xOut = NoExtractOut
    /\ user_selections = NoSelections
    /\ update = NoUpdate
    /\ fj = NoFetchJson
    /\ gen = NoGenerate

\* A user presses a button.
Button(user_id, data) ==
    /\ LET r == ButtonHandler(user_selections, user_id, data) IN
       /\ user_selections' = r.selections
       /\ update' = [user_id |-> user_id, data |-> data, raised |-> r.raised,
                     before |-> user_selections]
    /\ UNCHANGED <<cache, now, curlInstalled, call, got, vIn, vOut, fetch, xIn, xOut, fj, gen>>

\* A user sends /clear.
ClearCommand(user_id) ==
    /\ user_selections' = Clear(user_selections, user_id)
    /\ update' = [user_id |-> user_id, data |-> "/clear", raised |-> "None",
                  before |-> user_selections]
    /\ UNCHANGED <<cache, now, curlInstalled, call, got, vIn, vOut, fetch, xIn, xOut, fj, gen>>

NextBot ==
    \/ \E user_id \in Users, data \in CallbackData : Button(user_id, data)
    \/ \E user_id \in Users : ClearCommand(user_id)

SpecBot == InitBot /\ [][NextBot]_vars

---------------------------------------------------------------------------
(* sportybet.fetch_json                                                    *)

MaxRetries == 3

\* How one attempt can end: a 200 answer with a JSON body ("ok") or with a
\* body r.json() rejects ("badjson"), an answer raise_for_status() turns
\* into an HTTPError ("403", "404", "500"), or an exception of requests:
\* ConnectionError, Timeout, or another RequestException ("redirects").
FjOutcomes == {"ok", "badjson", "403", "404", "500", "connection", "timeout", "redirects"}

\* Mutant of the except clauses: a 403 is slept on and tried again like any
\* other HTTPError.
AfterAttemptRetriesForbidden(name) ==
    CASE name = "ok"                             -> "return"
      [] name \in {"403", "404", "500"}          -> "retry"
      [] name \in {"connection", "timeout"}      -> "retry"
      [] OTHER                                   -> "break"

\* What the try statement does with the end of an attempt: "return" r.json(),
\* go on to time.sleep and the next attempt ("retry"), or "break".
AfterAttempt(name) ==
    CASE name = "ok"                             -> "return"
      [] name = "403"                            -> "break"
      [] name \in {"404", "500"}                 -> "retry"
      [] name \in {"connection", "timeout"}      -> "retry"
      [] OTHER                                   -> "break"

\* 2 ** attempt
RECURSIVE Pow2(_)
Pow2(n) == IF n = 0 THEN 1 ELSE 2 * Pow2(n - 1)

InitFetchJson ==
    /\ cache = CacheInit
    /\ now = 0
    /\ curlInstalled = TRUE
    /\ call = [c \in Callers |-> IdleCall]
    /\ got = NoGet
    /\ vIn = NoValidateIn
    /\ vOut = NoValidateOut
    /\ fetch = NoFetch
    /\ xIn = NoExtractIn
    /\ xOut = NoExtractOut
    /\ user_selections = NoSelections
    /\ update = NoUpdate
    /\ fj = NoFetchJson
    /\ gen = NoGenerate

\* fetch_json(url, method, payload, retries) is called: "for attempt in
\* range(1, retries + 1)" starts the first attempt, or falls through to
\* "return None" when the range is empty.
FetchJsonCall(method, retries) ==
    /\ fj.pc = "idle"
    /\ fj' = IF retries >= 1
             THEN [fj EXCEPT !.pc = "request", !.method = method, !.retries = retries,
                             !.attempt = 1]
             ELSE [fj EXCEPT !.pc = "done", !.method = method, !.retries = retries,
                             !.ret = "None"]
    /\ UNCHANGED <<cache, now, curlInstalled, call, got, vIn, vOut, fetch, xIn, xOut,
                   user_selections, update, gen>>

\* The request of the current attempt ends as name.
FetchJsonAttemptEnds(name) ==
    /\ fj.pc = "request"
    /\ LET k == [fj EXCEPT !.log = Append(fj.log, name)] IN
       fj' = CASE AfterAttempt(name) = "return" -> [k EXCEPT !.pc = "done", !.ret = "document"]
               [] AfterAttempt(name) = "retry"  -> [k EXCEPT !.pc = "sleep"]
               [] OTHER                         -> [k EXCEPT !.pc = "done", !.ret = "None"]
    /\ UNCHANGED <<cache, now, curlInstalled, call, got, vIn, vOut, fetch, xIn, xOut,
                   user_selections, update, gen>>

\* time.sleep(2 ** attempt) ends: the next attempt, or "return None" after
\* the last.
FetchJsonWakes ==
    /\ fj.pc = "sleep"
    /\ LET k == [fj EXCEPT !.slept = Append(fj.slept, Pow2(fj.attempt))] IN
       fj' = IF fj.attempt < fj.retries
             THEN [k EXCEPT !.pc = "request", !.attempt = fj.attempt + 1]
             ELSE [k EXCEPT !.pc = "done", !.ret = "None"]
    /\ UNCHANGED <<cache, now, curlInstalled, call, got, vIn, vOut, fetch, xIn, xOut,
                   user_selections, update, gen>>

NextFetchJson ==
    \/ \E method \in {"GET", "POST"}, retries \in 0..MaxRetries : FetchJsonCall(method, retries)
    \/ \E name \in FjOutcomes : FetchJsonAttemptEnds(name)
    \/ FetchJsonWakes

SpecFetchJson == InitFetchJson /\ [][NextFetchJson]_vars

\* Every request ends (timeout=15) and every sleep ends.
SpecFetchJsonLive == SpecFetchJson /\ WF_vars(NextFetchJson)

---------------------------------------------------------------------------
(* booking.BookingCodeGenerator                                            *)

MARKET_OUTCOME_MAP ==
    [market \in {"1X2", "OU25", "BTTS"} |->
        CASE market = "1X2" ->
               [pick \in {"1", "X", "2"} |->
                   [marketId |-> "1", specifier |-> "",
                    outcomeId |-> CASE pick = "1" -> "1" [] pick = "X" -> "2" [] OTHER -> "3"]]
          [] market = "OU25" ->
               [pick \in {"Over", "Under"} |->
                   [marketId |-> "18", specifier |-> "total=2.5",
                    outcomeId |-> IF pick = "Over" THEN "12" ELSE "13"]]
          [] market = "BTTS" ->
               [pick \in {"Yes", "No"} |->
                   [marketId |-> "10", specifier |-> "",
                    outcomeId |-> IF pick = "Yes" THEN "74" ELSE "76"]]]

\* A float that is infinite, as float("inf") of the bot gives it.
JInf == [t |-> "inf"]

\* MARKET_OUTCOME_MAP.get(market, {}).get(pick), None written JNull
Mapping(market, pick) ==
    IF market.t = "str" /\ market.s \in DOMAIN MARKET_OUTCOME_MAP
    THEN IF pick.t = "str" /\ pick.s \in DOMAIN MARKET_OUTCOME_MAP[market.s]
         THEN MARKET_OUTCOME_MAP[market.s][pick.s]
         ELSE JNull
    ELSE JNull

\* odd_float of _build_bets, in hundredths: float(odd), 1.0 for a value not
\* above 1.0 and for one float() rejects (TypeError for None, ValueError for
\* a string that is no number).
OddFloat(odd) ==
    LET f == CASE odd.t = "float" -> [ok |-> TRUE, h |-> odd.h]
               [] odd.t = "int"   -> [ok |-> TRUE, h |-> 100 * odd.n]
               [] odd.t = "str"   -> FloatOfStr(odd.s)
               [] odd.t = "inf"   -> [ok |-> TRUE, h |-> 0]
               [] OTHER           -> [ok |-> FALSE, h |-> 0]
    IN  IF odd.t = "inf" THEN [inf |-> TRUE, h |-> 0]
        ELSE IF ~f.ok \/ f.h <= 100 THEN [inf |-> FALSE, h |-> 100]
        ELSE [inf |-> FALSE, h |-> f.h]

\* _build_bets(selections): the list of bets, or the OverflowError of
\* int(odd_float * 100) for an infinite odd. The odds of a bet are the
\* hundredths of odd_float (the binary float product can truncate to one
\* less, which the model leaves out).
RECURSIVE BuildBets(_)
BuildBets(selections) ==
    IF selections = <<>> THEN Return(<<>>)
    ELSE LET sel       == Head(selections)
             market    == Get(sel, "market", JNull)
             pick      == Get(sel, "pick", JNull)
             event_id  == Get(sel, "event_id", JNull)
             odd_float == OddFloat(Get(sel, "odd", JFloat(100)))
             mapping   == Mapping(market, pick)
             rest      == BuildBets(Tail(selections))
         IN  IF mapping = JNull THEN rest
             ELSE IF odd_float.inf THEN Raise(Exc("OverflowError"))
             ELSE IF rest.tag = "raise" THEN rest
             ELSE Return(<< [eventId |-> event_id, marketId |-> mapping.marketId,
                             outcomeId |-> mapping.outcomeId,
                             specifier |-> mapping.specifier,
                             odds |-> odd_float.h] >> \o rest.val)

\* The result records of generate.
Success(code)  == [success |-> TRUE, code |-> code]
Failure(error) == [success |-> FALSE, error |-> error]

\* c.upper()
UpperChar(c) ==
    IF \E i \in 1..Len(LowerCase) : CharAt(LowerCase, i) = c
    THEN CharAt(UpperCase, CHOOSE i \in 1..Len(LowerCase) : CharAt(LowerCase, i) = c)
    ELSE c

\* s.upper()
RECURSIVE Upper(_)
Upper(s) == IF s = "" THEN "" ELSE UpperChar(CharAt(s, 1)) \o Upper(SubSeq(s, 2, Len(s)))

\* error_map.get(biz_code, msg)
Friendly(biz_code, msg) ==
    CASE biz_code = JInt(1001) -> "Session expired - try again"
      [] biz_code = JInt(1002) -> "Odds have changed - please refresh"
      [] biz_code = JInt(1003) -> "Event no longer available"
      [] biz_code = JInt(1010) -> "Bet amount too low"
      [] biz_code = JInt(2001) -> "Service temporarily unavailable"
      [] OTHER                 -> PyStr(msg)

\* "a or b or c" for three values
FirstTruthy(a, b, c) == IF Truthy(a) THEN a ELSE IF Truthy(b) THEN b ELSE c

\* _parse_response(body): a result record, or the AttributeError of .get on
\* a body or a "data" that is not an object
ParseResponse(body) ==
    IF ~IsDict(body) THEN Raise(Exc("AttributeError"))
    ELSE LET biz_code == Get(body, "bizCode", JInt(-1)) IN
         IF biz_code = JInt(0) THEN
             LET data == Get(body, "data", EmptyDict) IN
             IF ~IsDict(data) THEN Raise(Exc("AttributeError"))
             ELSE LET code == FirstTruthy(Get(data, "shareCode", JNull),
                                          Get(data, "bookingCode", JNull),
                                          Get(data, "code", JNull))
                  IN  IF Truthy(code) THEN Return(Success(Upper(PyStr(code))))
                      ELSE Return(Failure("Code not found in response"))
         ELSE Return(Failure("[" \o PyStr(biz_code) \o "] "
                             \o Friendly(biz_code, Get(body, "message",
                                                       JStr("SportyBet returned an error")))))

\* Mutant of the except clauses of generate: "except Exception" is missing.
CaughtClientErrorOnly(r) ==
    IF r.tag = "return" THEN r
    ELSE IF r.exc.type = "ClientError" THEN Return(Failure("Network error: ClientError"))
    ELSE r

\* The except clauses of generate around the outcome r of the try body;
\* str(e) is written as the class of e.
Caught(r) ==
    IF r.tag = "return" THEN r
    ELSE IF r.exc.type = "ClientError" THEN Return(Failure("Network error: ClientError"))
    ELSE Return(Failure(r.exc.type))

\* What can come of the POST: an exception of the client, or a body.
BookingAnswers ==
    [ClientError  |-> Raise(Exc("ClientError")),
     TimeoutError |-> Raise(Exc("TimeoutError")),
     badjson      |-> Raise(Exc("JSONDecodeError")),
     ok           |-> Return(JObj([bizCode |-> JInt(0),
                                   data |-> JObj([shareCode |-> JStr("abc12")])])),
     bookingCode  |-> Return(JObj([bizCode |-> JInt(0),
                                   data |-> JObj([shareCode |-> JStr(""),
                                                  bookingCode |-> JInt(77)])])),
     nocode       |-> Return(JObj([bizCode |-> JInt(0), data |-> EmptyDict])),
     nulldata     |-> Return(JObj([bizCode |-> JInt(0), data |-> JNull])),
     changed      |-> Return(JObj([bizCode |-> JInt(1002), message |-> JStr("m")])),
     nobiz        |-> Return(EmptyDict),
     array        |-> Return(JArr(<<JInt(1)>>))]

\* The selections generate is handed: values of a betslip.
SelectionOf(event_id, market, pick, odd) ==
    JObj([event_id |-> JStr(event_id), market |-> market, pick |-> pick, odd |-> odd])

BookingSelections ==
    { SelectionOf("E1", JStr("1X2"), JStr("1"), JFloat(250)),
      SelectionOf("E2", JStr("OU25"), JStr("Maybe"), JFloat(185)),
      SelectionOf("E3", JStr("BTTS"), JStr("Yes"), JStr("N/A")),
      SelectionOf("E4", JStr("HT"), JStr("1"), JFloat(50)),
      SelectionOf("E5", JNull, JStr("1"), JFloat(200)),
      SelectionOf("E6", JStr("OU25"), JStr("Under"), JInf) }

MaxSelections == 2

InitBooking ==
    /\ cache = CacheInit
    /\ now = 0
    /\ curlInstalled = TRUE
    /\ call = [c \in Callers |-> IdleCall]
    /\ got = NoGet
    /\ vIn = NoValidateIn
    /\ vOut = NoValidateOut
    /\ fetch = NoFetch
    /\ xIn = NoExtractIn
    /\ xOut = NoExtractOut
    /\ user_selections = NoSelections
    /\ update = NoUpdate
    /\ fj = NoFetchJson
    /\ gen = NoGenerate

\* generate(selections) is called: the bets are built and, if there are
\* any, the payload is posted.
GenerateCall(selections) ==
    /\ gen.pc = "idle"
    /\ LET bets == BuildBets(selections)
           k    == [gen EXCEPT !.selections = selections]
       IN  gen' = IF bets.tag = "raise" THEN [k EXCEPT !.pc = "done", !.out = Caught(bets)]
                  ELSE IF bets.val = <<>>
                  THEN [k EXCEPT !.pc = "done",
                                 !.out = Return(Failure("Could not build bet payload"))]
                  ELSE [k EXCEPT !.pc = "post",
                                 !.sent = << [bets |-> bets.val, source |-> "H5",
                                              oddsType |-> 1] >>]
    /\ UNCHANGED <<cache, now, curlInstalled, call, got, vIn, vOut, fetch, xIn, xOut,
                   user_selections, update, fj>>

\* The POST ends as the answer named name.
GenerateAnswered(name) ==
    /\ gen.pc = "post"
    /\ LET answer == BookingAnswers[name] IN
       gen' = [gen EXCEPT !.pc = "done",
                          !.out = Caught(IF answer.tag = "raise" THEN answer
                                         ELSE ParseResponse(answer.val))]
    /\ UNCHANGED <<cache, now, curlInstalled, call, got, vIn, vOut, fetch, xIn, xOut,
                   user_selections, update, fj>>

NextBooking ==
    \/ \E selections \in SeqsUpTo(BookingSelections, MaxSelections) : GenerateCall(selections)
    \/ \E name \in DOMAIN BookingAnswers : GenerateAnswered(name)

SpecBooking == InitBooking /\ [][NextBooking]_vars

---------------------------------------------------------------------------
(* Claims                                                                  *)

\* C1: every call of get_today_matches that has ended either returned a
\* non-empty list or raised a ScraperError; none returned the empty list.
C1_NeverEmpty ==
    \A c \in DOMAIN call :
        call[c].pc = "done" =>
            \/ call[c].ret.kind = "list" /\ call[c].ret.list # <<>>
            \/ call[c].ret.kind = "raise" /\ call[c].ret.exc.type = "ScraperError"

\* C1 witness: a call in which all three endpoints answered without error
\* and without a match has ended.
C1_Witness ==
    \E c \in DOMAIN call :
        /\ call[c].pc = "done"
        /\ \A i \in 1..NumEndpoints : Empty(call[c], i)
        /\ call[c].ret.kind = "raise"

\* C2: a call with force_refresh false made while the cache holds a
\* non-empty snapshot younger than the TTL ends at once with that snapshot,
\* and has issued no request to any endpoint by either client.
C2_FreshHitNoNetwork ==
    [][ \A c \in DOMAIN call :
          ( /\ call[c].pc = "idle" /\ call'[c].pc # "idle"
            /\ ~call'[c].force
            /\ cache.data # <<>> /\ now - cache.ts < CACHE_TTL )
          => ( /\ call'[c].pc = "done"
               /\ call'[c].ret = RetList(cache.data)
               /\ NoRequests(call'[c]) ) ]_vars

\* C2 witness: a non-forced call was served a snapshot 299 s old.
C2_Witness ==
    \E c \in DOMAIN call :
        /\ call[c].pc = "done" /\ call[c].hit /\ ~call[c].force
        /\ call[c].ret.list = cache.data /\ cache.data # <<>>
        /\ now - cache.ts = CACHE_TTL - 1

\* C3: a direct get returns the stored list exactly when that list is
\* non-empty and was stored less than CACHE_TTL seconds before the get;
\* otherwise it returns None.
C3_GetOnlyFresh ==
    got.made =>
        IF got.before.list # <<>> /\ got.at - got.before.at < CACHE_TTL
        THEN got.result = SomeList(got.before.list)
        ELSE got.result = NoneList

\* C3 witness: a get found a non-empty list stored exactly CACHE_TTL
\* seconds earlier, and returned None.
C3_Witness ==
    /\ got.made /\ got.before.list # <<>>
    /\ got.at - got.before.at = CACHE_TTL
    /\ got.result.none

\* C4: once an endpoint's parse has yielded a non-empty list the call has
\* ended with that list, no later endpoint has been sent a request, and
\* the step in which the list was yielded stored it in the cache with the
\* time of that step.
C4_ShortCircuit ==
    [][ \A c \in DOMAIN call : \A i \in 1..NumEndpoints :
          Yielded(call'[c], i) =>
              /\ call'[c].pc = "done"
              /\ call'[c].ret = RetList(BodyResult(call'[c], i).val)
              /\ \A j \in (i + 1)..NumEndpoints : Requests(call'[c], j) = 0
              /\ ~Yielded(call[c], i) =>
                     cache' = [data |-> BodyResult(call'[c], i).val, ts |-> now] ]_vars

\* C4 witness: the second endpoint yielded a list after the first had
\* failed, and the call ended.
C4_Witness ==
    \E c \in DOMAIN call :
        /\ Failed(call[c], 1) /\ Yielded(call[c], 2)
        /\ call[c].pc = "done" /\ cache.data = call[c].ret.list

\* C5: an endpoint that failed or yielded no match is followed by a
\* request to the next endpoint, and a call in which some endpoint yielded
\* a non-empty list ended with a list, not with an error.
C5_ChainFallback ==
    \A c \in DOMAIN call :
        /\ \A i \in 1..(NumEndpoints - 1) :
               (Failed(call[c], i) \/ Empty(call[c], i)) => Requests(call[c], i + 1) >= 1
        /\ (call[c].pc = "done" /\ \E i \in 1..NumEndpoints : Yielded(call[c], i))
               => call[c].ret.kind = "list"

\* C5 witness: the first endpoint raised a ScraperError, the second
\* yielded no match, the third yielded a list, which the call returned.
C5_Witness ==
    \E c \in DOMAIN call :
        /\ Failed(call[c], 1) /\ BodyResult(call[c], 1).exc.type = "ScraperError"
        /\ Empty(call[c], 2)
        /\ Yielded(call[c], 3)
        /\ call[c].pc = "done" /\ call[c].ret.kind = "list"

\* The error the except clauses record for the failure e of ENDPOINTS[i].
Recorded(e, i) ==
    IF e.type = "ScraperError" THEN e ELSE ScraperError(UnexpectedMsg, e.type, Url(i))

\* C6: a call that ended with the chain exhausted raised the error recorded
\* for the last endpoint that failed, whatever the endpoints after it
\* yielded, and raised the "All endpoints exhausted" error exactly when no
\* endpoint failed.
C6_LastErrorRaised ==
    \A c \in DOMAIN call :
        (call[c].pc = "done" /\ ~call[c].hit
            /\ ~\E i \in 1..NumEndpoints : Yielded(call[c], i)) =>
        LET failed == {i \in 1..NumEndpoints : Failed(call[c], i)} IN
        /\ call[c].ret.kind = "raise"
        /\ failed # {} =>
               call[c].ret.exc = Recorded(BodyResult(call[c], MaxOf(failed)).exc, MaxOf(failed))
        /\ failed = {} <=> call[c].ret.exc = ScraperError(ExhaustedMsg, "None", "None")

\* C6 witness: the first endpoint failed, the two after it yielded no
\* match, and the call raised.
C6_Witness ==
    \E c \in DOMAIN call :
        /\ call[c].pc = "done" /\ call[c].ret.kind = "raise"
        /\ Failed(call[c], 1) /\ Empty(call[c], 2) /\ Empty(call[c], 3)

\* Every response the call k received had status 403, and every endpoint
\* gave one.
AllAnswered403(k) ==
    \A i \in 1..NumEndpoints :
        /\ \E n \in {k.att[i].curl, k.att[i].aio} :
               n # "none" /\ NetOutcome(n).exc = "None"
        /\ \A n \in {k.att[i].curl, k.att[i].aio} \ {"none"} :
               NetOutcome(n).exc = "None" => NetOutcome(n).status = 403

\* C7: a call in which all three endpoints answered 403, through whichever
\* client, raised a ScraperError whose message is the "Blocked (403)" one.
C7_AllBlocked ==
    \A c \in DOMAIN call :
        (call[c].pc = "done" /\ AllAnswered403(call[c])) =>
            /\ call[c].ret.kind = "raise"
            /\ call[c].ret.exc.type = "ScraperError"
            /\ call[c].ret.exc.message = BlockedMsg

\* C7 witness: the 403s came through curl_cffi for one endpoint and through
\* aiohttp, after curl_cffi raised, for another.
C7_Witness ==
    \E c \in DOMAIN call :
        /\ call[c].pc = "done" /\ AllAnswered403(call[c])
        /\ call[c].att[1].curl = "403"
        /\ call[c].att[2].curl = "timeout" /\ call[c].att[2].aio = "403"

\* C8: whatever a call raises is a ScraperError, and while the last failure
\* of the chain is an exception other than a ScraperError, raised by the
\* fetch, the validation or the parse of an endpoint, last_error is a
\* ScraperError tagged with that endpoint's URL whose cause is that
\* exception.
C8_OnlyScraperError ==
    \A c \in DOMAIN call :
        /\ (call[c].pc = "done" /\ call[c].ret.kind = "raise")
               => call[c].ret.exc.type = "ScraperError"
        /\ LET failed == {i \in 1..NumEndpoints : Failed(call[c], i)} IN
           failed # {} =>
               LET i == MaxOf(failed)
                   e == BodyResult(call[c], i).exc
               IN  e.type # "ScraperError" =>
                       /\ call[c].last_error.type = "ScraperError"
                       /\ call[c].last_error.endpoint = Url(i)
                       /\ call[c].last_error.cause = e.type

\* C8 witness: a call raised after the parse of the last endpoint's
\* document raised an AttributeError.
C8_Witness ==
    \E c \in DOMAIN call :
        /\ call[c].pc = "done" /\ call[c].ret.kind = "raise"
        /\ FetchResult(call[c], NumEndpoints).tag = "return"
        /\ BodyResult(call[c], NumEndpoints).exc.type = "AttributeError"
        /\ call[c].ret.exc.cause = "AttributeError"

\* The body carries an HTML marker.
IsHtmlBody(text) == text.bang \/ text.html300

\* C9: the validator reports the first failing check in the order 403, 429,
\* 404, other non-200 status, HTML marker, JSON decode, business code: a
\* status other than 200 is reported whatever the body is and without the
\* body being decoded, an HTML body is reported as a challenge page without
\* being decoded, and a business code is reported only for a body that
\* passed the checks before it.
C9_ValidatorOrder ==
    vOut.done =>
        LET st   == vIn.status
            tx   == vIn.text
            html == IsHtmlBody(tx)
            se   == vOut.tag = "raise" /\ vOut.exc.type = "ScraperError"
                        /\ vOut.exc.endpoint = vIn.url
        IN  /\ st = 403 => se /\ vOut.exc.message = BlockedMsg
            /\ st = 429 => se /\ vOut.exc.message = RateLimitedMsg
            /\ st = 404 => se /\ vOut.exc.message = NotFoundMsg
            /\ st \notin {200, 403, 429, 404} => se /\ vOut.exc.message = HttpMsg(st)
            /\ st # 200 => ~vOut.decoded
            /\ (st = 200 /\ html) => se /\ vOut.exc.message = HtmlMsg /\ ~vOut.decoded
            /\ (st = 200 /\ ~html /\ ~tx.valid) =>
                   se /\ vOut.exc.message = InvalidJsonMsg
                      /\ vOut.exc.cause = "JSONDecodeError"
            /\ (st = 200 /\ ~html /\ tx.valid /\ IsDict(tx.doc)
                  /\ Get(tx.doc, "bizCode", JInt(0)).t = "int"
                  /\ Get(tx.doc, "bizCode", JInt(0)).n # 0) =>
                   se /\ vOut.exc.message =
                             BizMsg(tx.doc.f.bizCode,
                                    PyStr(Get(tx.doc, "message", JStr("API error"))))

\* C9 witness: a response with status 500 and an HTML body was reported as
\* "HTTP 500".
C9_Witness ==
    /\ vOut.done /\ vIn.status = 500 /\ IsHtmlBody(vIn.text)
    /\ vOut.exc.message = HttpMsg(500)

\* C10: the error recorded for an endpoint whose curl_cffi request was
\* answered 403 is not the "Blocked (403) - install curl_cffi" one.
C10_BlockedOnlyWithoutEvasive ==
    \A c \in DOMAIN call :
        LET failed == {i \in 1..NumEndpoints : Failed(call[c], i)} IN
        \A i \in failed :
            ( /\ i = MaxOf(failed)
              /\ call[c].att[i].curl # "none"
              /\ NetOutcome(call[c].att[i].curl).exc = "None"
              /\ NetOutcome(call[c].att[i].curl).status = 403 )
            => call[c].last_error.message # BlockedMsg

\* The business status code a decoded document carries: "bizCode", or
\* "code" when there is no "bizCode"; a document that is not an object
\* carries none.
BusinessCode(doc) ==
    IF ~IsDict(doc) THEN JNull
    ELSE IF "bizCode" \in DOMAIN doc.f THEN doc.f["bizCode"]
    ELSE IF "code" \in DOMAIN doc.f THEN doc.f["code"]
    ELSE JNull

\* The code is a number other than 0, or a string other than "" and "0".
IsNonZeroCode(v) ==
    \/ v.t = "int" /\ v.n # 0
    \/ v.t = "str" /\ v.s \notin {"", "0"}

\* The response passes the four conditions of C11.
Acceptable(status, text) ==
    /\ status = 200
    /\ ~IsHtmlBody(text)
    /\ text.valid
    /\ ~IsNonZeroCode(BusinessCode(text.doc))

\* C11: the validator returns a document only for a response with status
\* 200 whose body is not HTML, is valid JSON and carries no non-zero
\* business code, and the document is the decoded body; every other
\* response raises a ScraperError tagged with the URL, which for a non-zero
\* business code carries the upstream message.
C11_OnlyValidDocuments ==
    vOut.done =>
        /\ vOut.tag = "return" =>
               Acceptable(vIn.status, vIn.text) /\ vOut.val = vIn.text.doc
        /\ ~Acceptable(vIn.status, vIn.text) =>
               /\ vOut.tag = "raise"
               /\ vOut.exc.type = "ScraperError"
               /\ vOut.exc.endpoint = vIn.url
        /\ ( /\ vIn.status = 200 /\ ~IsHtmlBody(vIn.text) /\ vIn.text.valid
             /\ IsNonZeroCode(BusinessCode(vIn.text.doc))
             /\ "message" \in DOMAIN vIn.text.doc.f ) =>
               vOut.exc.message =
                   BizMsg(BusinessCode(vIn.text.doc), vIn.text.doc.f["message"].s)

\* C11 witness: a 200 response whose JSON body has bizCode 10000 and the
\* message "denied" raised the business error with that message.
C11_Witness ==
    /\ vOut.done /\ vIn.status = 200
    /\ BusinessCode(vIn.text.doc) = JInt(10000)
    /\ vOut.exc.message = "bizCode=10000: denied"

\* The call k has sent a request to ENDPOINTS[i] by the curl_cffi client, by
\* the aiohttp client (a request in flight counts).
CurlContacted(k, i) == k.att[i].curl # "none" \/ (k.idx = i /\ k.pc = "curl")
AioContacted(k, i)  == k.att[i].aio # "none" \/ (k.idx = i /\ k.pc = "aiohttp")

\* How the curl_cffi attempt on ENDPOINTS[i] ended, once it has.
CurlResult(k, i) == FetchCurl(NetOutcome(k.att[i].curl), Url(i))

\* C12: in the fetch of an endpoint the curl_cffi client is tried first when
\* it is installed; the aiohttp client is contacted exactly when curl_cffi
\* is not installed or its attempt raised something other than a
\* ScraperError; a fetch issues at most two requests, and one only when
\* the curl_cffi attempt returned a document or raised a ScraperError.
C12_FallbackOnlyOnOtherErrors ==
    \A c \in DOMAIN call : \A i \in 1..NumEndpoints :
        LET k == call[c] IN
        Requests(k, i) >= 1 =>
            /\ curlInstalled => CurlContacted(k, i)
            /\ ~curlInstalled => ~CurlContacted(k, i) /\ AioContacted(k, i)
            /\ k.att[i].curl # "none" =>
                  ( AioContacted(k, i) <=>
                      /\ CurlResult(k, i).tag = "raise"
                      /\ CurlResult(k, i).exc.type # "ScraperError" )
            /\ Requests(k, i) <= 2
            /\ ( /\ k.att[i].curl # "none"
                 /\ \/ CurlResult(k, i).tag = "return"
                    \/ CurlResult(k, i).exc.type = "ScraperError" ) =>
                  Requests(k, i) = 1

\* C12 witness: in one call the curl_cffi request to the first endpoint
\* timed out and the aiohttp request followed, and the curl_cffi request to
\* the second endpoint was answered 403 and no aiohttp request followed.
C12_Witness ==
    \E c \in DOMAIN call :
        /\ call[c].att[1].curl = "timeout" /\ call[c].att[1].aio # "none"
        /\ call[c].att[2].curl = "403" /\ call[c].att[2].aio = "none"
        /\ call[c].idx = 3

\* A request of the call k to ENDPOINTS[i] timed out, in either client.
TimedOut(k, i) == k.att[i].curl = "timeout" \/ k.att[i].aio = "timeout"

\* C13 as claimed: once the fetch of an endpoint in which a request timed
\* out has ended, the endpoint has failed and, when it is not the last one,
\* the next endpoint has been attempted.
C13_TimeoutFailsEndpoint ==
    \A c \in DOMAIN call : \A i \in 1..NumEndpoints :
        LET k == call[c] IN
        (TimedOut(k, i) /\ FetchEnded(k, i)) =>
            /\ Failed(k, i)
            /\ i < NumEndpoints => Requests(k, i + 1) >= 1

\* C13, amended: a timeout never ends the call as a timeout. A timeout of
\* the curl_cffi request sends the fetch on to the aiohttp client for the
\* same endpoint; a timeout of the aiohttp request is a failure of the
\* endpoint, after which the next endpoint is attempted, or, after the last
\* one, the call raises a ScraperError.
C13_TimeoutNotFatal ==
    \A c \in DOMAIN call : \A i \in 1..NumEndpoints :
        LET k == call[c] IN
        /\ k.att[i].curl = "timeout" => AioContacted(k, i)
        /\ k.att[i].aio = "timeout" =>
              /\ Failed(k, i)
              /\ i < NumEndpoints => Requests(k, i + 1) >= 1
              /\ i = NumEndpoints =>
                    /\ k.pc = "done" /\ k.ret.kind = "raise"
                    /\ k.ret.exc.type = "ScraperError"
        /\ k.ret.exc.type # "TimeoutError"

\* C13 witness: both requests to the first endpoint timed out and the call
\* is waiting for the second endpoint.
C13_Witness ==
    \E c \in DOMAIN call :
        /\ call[c].att[1].curl = "timeout" /\ call[c].att[1].aio = "timeout"
        /\ call[c].idx = 2 /\ call[c].pc \in {"curl", "aiohttp"}

\* C14: after set(L) the cache holds exactly L, the empty L too, with the
\* time of the set as its timestamp; and a get that returns a list returns
\* the list of the latest set, never that of an earlier one.
C14_SetReplaces ==
    /\ got.written.op = "set" =>
          cache = [data |-> got.written.last_set.list, ts |-> got.written.last_set.at]
    /\ (got.made /\ ~got.result.none) =>
          /\ got.before.op = "set"
          /\ got.result.list = got.before.last_set.list

\* C14 witness: a non-empty list was stored, later the empty list was set,
\* and the cache holds the empty list with the time of that set.
C14_Witness ==
    /\ got.made /\ ~got.result.none
    /\ got.written.op = "set" /\ got.written.last_set.list = <<>>
    /\ got.written.last_set.at > got.at
    /\ cache.data = <<>> /\ cache.ts = got.written.last_set.at

\* C15: a get made after an invalidate, with no set of a non-empty list in
\* between, returns None, however recent the last set is.
C15_InvalidateEmpties ==
    (got.made /\ got.before.inv) => got.result.none

\* C15 witness: a non-empty list was set, the cache was invalidated and a
\* get was made, all within the same second, and the get returned None.
C15_Witness ==
    /\ got.made /\ got.before.inv /\ got.result.none
    /\ got.before.last_set.list # <<>>
    /\ got.before.last_set.at = got.at

\* The step is a _Cache.get made directly.
IsDirectGet == got'.made /\ got'.written = got.written /\ got' # got

\* C16 as claimed: for every list L, a get made less than the TTL after
\* set(L), with no set or invalidate in between, returns L.
C16_RoundTripEveryList ==
    (got.made /\ got.before.op = "set" /\ got.at - got.before.last_set.at < CACHE_TTL) =>
        got.result = SomeList(got.before.last_set.list)

\* C16, amended: a get made after set(L), with no set or invalidate in
\* between, returns L when L is not empty and less than the TTL has passed,
\* and None when L is empty or the TTL has passed; the get issues no
\* request and starts no call.
C16_RoundTripNonEmpty ==
    [][ IsDirectGet /\ got'.before.op = "set" =>
          /\ ( /\ got'.before.last_set.list # <<>>
               /\ got'.at - got'.before.last_set.at < CACHE_TTL ) =>
                 got'.result = SomeList(got'.before.last_set.list)
          /\ ( \/ got'.before.last_set.list = <<>>
               \/ got'.at - got'.before.last_set.at >= CACHE_TTL ) =>
                 got'.result = NoneList
          /\ call' = call /\ cache' = cache
      ]_vars

\* C16 witness: the two-match list was set and a get made 299 s later
\* returned it.
C16_Witness ==
    /\ got.made /\ got.before.op = "set"
    /\ got.before.last_set.list = <<Match("2"), Match("E1")>>
    /\ got.at - got.before.last_set.at = CACHE_TTL - 1
    /\ got.result = SomeList(got.before.last_set.list)

\* The call k has a request in flight to ENDPOINTS[i].
InFlight(k, i) == k.idx = i /\ k.pc \in {"curl", "aiohttp"}

\* C19: the endpoints are, in this order, highlights, schedule/today and
\* factsCenter. In every step of a call: a request goes out to ENDPOINTS[i]
\* only when every earlier endpoint's fetch has ended in a failure or
\* without a match and no later endpoint has been contacted; each client
\* sends at most one request to an endpoint, so that an outcome once
\* recorded is never replaced; and the loop index moves by one at most.
C19_InOrderOnce ==
    [][ \A c \in DOMAIN call : \A i \in 1..NumEndpoints :
          LET k == call[c]
              n == call'[c]
          IN  n.pc # "idle" =>
              /\ <<Url(1), Url(2), Url(3)>> =
                     << "/sport/football/highlights",
                        "/sport/football/events/schedule/today",
                        "/factsCenter/football" >>
              /\ InFlight(n, i) =>
                    /\ \A j \in 1..(i - 1) :
                          FetchEnded(n, j) /\ (Failed(n, j) \/ Empty(n, j))
                    /\ \A j \in (i + 1)..NumEndpoints : Requests(n, j) = 0
                    /\ n.pc = "curl" => n.att[i] = NoAttempt
                    /\ n.pc = "aiohttp" => n.att[i].aio = "none"
              /\ k.att[i].curl # "none" => n.att[i].curl = k.att[i].curl
              /\ k.att[i].aio # "none" => n.att[i].aio = k.att[i].aio
              /\ k.pc # "idle" => n.idx \in {k.idx, k.idx + 1}
      ]_vars

\* C19 witness: a call has a request in flight to the third endpoint after
\* the first failed and the second answered without a match.
C19_Witness ==
    \E c \in DOMAIN call :
        /\ InFlight(call[c], 3)
        /\ Failed(call[c], 1) /\ Empty(call[c], 2)

\* C20: the request last sent by _fetch, by either client, carries every
\* parameter of the descriptor with the descriptor's value and, besides
\* them, "_t" with the time at which _fetch was called; and the params
\* of the descriptors are what ENDPOINTS defines, after any number of calls.
C20_CacheBusterLeavesDescriptors ==
    /\ fetch.descr = [i \in 1..NumEndpoints |-> ENDPOINTS[i].params]
    /\ fetch.sent.via # "none" =>
          LET q == fetch.sent.params
              d == ENDPOINTS[fetch.i].params
          IN  /\ fetch.sent.url = Url(fetch.i)
              /\ DOMAIN q = DOMAIN d \cup {"_t"}
              /\ \A key \in DOMAIN d : q[key] = d[key]
              /\ q["_t"] = TimeMs(fetch.started)

\* C20 witness: in the third call of _fetch the curl_cffi request failed
\* and the aiohttp request went out later with the timestamp of the call.
C20_Witness ==
    /\ fetch.fetches = 3 /\ curlInstalled
    /\ fetch.sent.via = "aiohttp" /\ fetch.pc = "aiohttp"
    /\ fetch.started > 0 /\ now > fetch.started
    /\ fetch.sent.params["_t"] = TimeMs(fetch.started)

\* The non-empty lists that the parse of one endpoint's answer can produce.
CompleteLists ==
    { TryBody(FetchAiohttp(NetOutcome(name), Url(i)), Parser(i)).val :
        <<name, i>> \in
          { x \in NetOutcomes \X (1..NumEndpoints) :
              Succeeded(TryBody(FetchAiohttp(NetOutcome(x[1]), Url(x[2])), Parser(x[2]))) } }

\* C17: with two calls interleaved in every way, the list a call is served
\* from the cache is the stored list as a whole, and the stored list is the
\* whole result of one endpoint's parse; so is every list a write stores.
C17_WholeSnapshots ==
    [][ /\ \A c \in DOMAIN call :
              (call[c].pc = "idle" /\ call'[c].pc = "done" /\ call'[c].hit) =>
                  /\ call'[c].ret = RetList(cache.data)
                  /\ cache.data \in CompleteLists
        /\ cache' # cache => cache'.data \in CompleteLists
      ]_vars

\* C17 witness: one call wrote the list that the second endpoint yielded
\* and the other call was then served that list from the cache.
C17_Witness ==
    \E c, d \in DOMAIN call :
        /\ c # d
        /\ call[c].pc = "done" /\ call[c].hit
        /\ call[c].ret.list = <<Match("2")>>
        /\ call[d].pc = "done" /\ ~call[d].hit /\ Yielded(call[d], 2)
        /\ cache.data = call[c].ret.list

\* C18: a call that is not served from the cache sends its own request to
\* the first endpoint at once, whatever the other call is doing; a call
\* that ends with a list it was not served from the cache returns the list
\* its own endpoint yielded and writes it to the cache at that moment,
\* whether or not the other call has written in the meantime.
C18_NoSingleFlight ==
    [][ \A c \in DOMAIN call :
          LET k == call[c]
              n == call'[c]
          IN  /\ (k.pc = "idle" /\ n.pc # "idle" /\ ~n.hit) => InFlight(n, 1)
              /\ (k.pc \in {"curl", "aiohttp"} /\ n.pc = "done" /\ n.ret.kind = "list") =>
                    /\ Yielded(n, n.idx)
                    /\ n.ret.list = BodyResult(n, n.idx).val
                    /\ cache' = [data |-> n.ret.list, ts |-> now]
              /\ (n.pc = "done" /\ ~n.hit) => Requests(n, 1) >= 1
      ]_vars

\* C18 witness: with no time passing, two calls without force_refresh both
\* missed the cache, both walked the chain and both wrote: the first
\* endpoint's list of the one, then the second endpoint's list of the other.
C18_Witness ==
    \E c, d \in DOMAIN call :
        /\ c # d /\ now = 0
        /\ call[c].pc = "done" /\ ~call[c].hit /\ ~call[c].force
        /\ call[d].pc = "done" /\ ~call[d].hit /\ ~call[d].force
        /\ Yielded(call[c], 1) /\ Yielded(call[d], 2)
        /\ call[c].ret.list # call[d].ret.list
        /\ cache.data = call[d].ret.list

\* v is None.
IsNone(v) == "t" \in DOMAIN v /\ v.t = "null"

\* The extraction returned a match; it returned None.
GaveMatch == xOut.done /\ xOut.tag = "return" /\ ~IsNone(xOut.val)
GaveNone  == xOut.done /\ xOut.tag = "return" /\ IsNone(xOut.val)

\* v can serve as an identifier: a non-empty string or a number other than 0.
IsUsableId(v) ==
    \/ v.t = "str" /\ v.s # ""
    \/ v.t = "int" /\ v.n # 0

\* The event holds a usable identifier under one of the known keys.
HasIdentifier(event) ==
    /\ IsDict(event)
    /\ \E i \in 1..Len(FIELD_MAP.event_id) :
          /\ FIELD_MAP.event_id[i] \in DOMAIN event.f
          /\ IsUsableId(event.f[FIELD_MAP.event_id[i]])

\* The event holds nothing but identifier keys.
OnlyIdentifier(event) ==
    DOMAIN event.f \subseteq { FIELD_MAP.event_id[i] : i \in 1..Len(FIELD_MAP.event_id) }

\* C21 as claimed: the extraction of an event (an object) returns None
\* exactly when the event holds no usable identifier under any known key;
\* an event with an identifier and nothing else gives a match with "Home",
\* "Away" and "Football"; the event_id of a match is never empty.
C21_DropsOnlyWithoutIdentifier ==
    (xOut.done /\ IsDict(xIn.event)) =>
        /\ GaveNone <=> ~HasIdentifier(xIn.event)
        /\ ( /\ HasIdentifier(xIn.event) /\ OnlyIdentifier(xIn.event)
             /\ IsNone(xIn.league) ) =>
               /\ GaveMatch
               /\ xOut.val.home = "Home" /\ xOut.val.away = "Away"
               /\ xOut.val.league = "Football"
        /\ GaveMatch => xOut.val.event_id # ""

\* The events of a flat-list document, in upstream order.
UpstreamEvents(doc) ==
    IF IsList(doc.f["data"]) THEN doc.f["data"].a ELSE doc.f["data"].f["events"].a

\* The event identifiers of a list of matches, in order.
EventIds(matches) == [j \in 1..Len(matches) |-> matches[j].event_id]

\* The subsequence of events that are objects with a usable identifier as
\* the value of their first identifier key present.
RECURSIVE WellFormed(_)
WellFormed(events) ==
    IF events = <<>> THEN <<>>
    ELSE (IF IsDict(Head(events)) /\ Truthy(Pick(Head(events), FIELD_MAP.event_id, JNull))
          THEN <<Head(events)>> ELSE <<>>) \o WellFormed(Tail(events))

\* C22 as claimed: whatever single records of a document are bad, the
\* parse returns a list, and the list holds the matches of the well-formed
\* events of the document.
C22_BadRecordSkipped ==
    xOut.done =>
        /\ xOut.tag = "return"
        /\ EventIds(xOut.val) =
              [j \in 1..Len(WellFormed(UpstreamEvents(xIn.doc))) |->
                  PyStr(Pick(WellFormed(UpstreamEvents(xIn.doc))[j],
                             FIELD_MAP.event_id, JNull))]

\* s is digits, a point and two digits.
IsTwoDecimal(s) ==
    /\ Len(s) >= 4
    /\ CharAt(s, Len(s) - 2) = "."
    /\ IsDigits(SubSeq(s, 1, Len(s) - 3))
    /\ IsDigits(SubSeq(s, Len(s) - 1, Len(s)))

OddsFields == {"odds_1x2", "odds_ou", "odds_btts"}

\* C23 as claimed: every odds value of a produced match is digits with two
\* decimals or "?".
C23_OddsTwoDecimalsOrSentinel ==
    GaveMatch =>
        \A field \in OddsFields :
            ~IsNone(xOut.val[field]) =>
                \A key \in DOMAIN xOut.val[field] :
                    IsTwoDecimal(xOut.val[field][key]) \/ xOut.val[field][key] = "?"

\* The outcomes of the markets of one kind of an event, in upstream order
\* (markets whose outcomes are not a list have none).
RECURSIVE KindOutcomes(_, _)
KindOutcomes(markets, kind) ==
    IF markets = <<>> THEN <<>>
    ELSE LET market   == Head(markets)
             id       == Pick(market, FIELD_MAP.market_id, JStr(""))
             outcomes == Pick(market, FIELD_MAP.outcomes, EmptyList)
         IN  (IF Lower(PyStr(id)) \in MARKET_IDS[kind] /\ IsList(outcomes)
              THEN outcomes.a ELSE <<>>) \o KindOutcomes(Tail(markets), kind)

\* The label of an outcome and its odds as upstream gives them.
LabelOf(o) == PyStr(Pick(o, FIELD_MAP.outcome_desc, JStr("")))
OddsOf(o)  == Pick(o, FIELD_MAP.odd_val, JNull)

\* The positions in outs of the outcomes whose label is an alias of entry.
Matching(outs, entry) ==
    { j \in 1..Len(outs) : Lower(Strip(LabelOf(outs[j]))) \in entry.aliases }

\* The field of the match that holds the odds of a kind of market.
OddsField(kind) ==
    CASE kind = "1x2" -> "odds_1x2" [] kind = "ou25" -> "odds_ou" [] kind = "btts" -> "odds_btts"

\* C24: "1", "W1" and "Home Win" are labels of the key home of the result
\* market; and in every produced match, for every kind of market and every
\* canonical key of it, the key carries the odds of the first outcome in
\* upstream order whose label, blanks and case aside, is one of the key's
\* aliases, and is missing when there is no such outcome.
C24_FirstAliasMatchWins ==
    /\ \A label \in {"1", "W1", "Home Win"} :
          /\ OUTCOME_ALIASES["1x2"][1].key = "home"
          /\ MatchAlias(label, OUTCOME_ALIASES["1x2"][1].aliases)
    /\ GaveMatch =>
          \A kind \in MarketKinds : \A e \in 1..Len(OUTCOME_ALIASES[kind]) :
              LET markets == Pick(xIn.event, FIELD_MAP.markets, EmptyList)
                  outs    == IF IsList(markets) THEN KindOutcomes(markets.a, kind) ELSE <<>>
                  entry   == OUTCOME_ALIASES[kind][e]
                  hits    == Matching(outs, entry)
                  odds    == xOut.val[OddsField(kind)]
              IN  IF hits = {}
                  THEN IsNone(odds) \/ entry.key \notin DOMAIN odds
                  ELSE /\ ~IsNone(odds)
                       /\ entry.key \in DOMAIN odds
                       /\ odds[entry.key] =
                             NormalizeOdd(OddsOf(outs[CHOOSE j \in hits : \A i \in hits : j <= i]))

\* C24 witness: a match was produced from a result market whose outcomes
\* "W1", "1" and "Home Win" follow each other in this order, and home
\* carries the odds of "W1".
C24_Witness ==
    /\ GaveMatch
    /\ "markets" \in DOMAIN xIn.event.f
    /\ IsList(xIn.event.f["markets"])
    /\ Cardinality(Matching(KindOutcomes(xIn.event.f["markets"].a, "1x2"),
                            OUTCOME_ALIASES["1x2"][1])) = 3
    /\ ~IsNone(xOut.val.odds_1x2)
    /\ xOut.val.odds_1x2["home"] = "2.50"

\* The outcomes of the markets of a kind in the event handed over.
OutcomesIn(kind) ==
    LET markets == Pick(xIn.event, FIELD_MAP.markets, EmptyList) IN
    IF IsList(markets) THEN KindOutcomes(markets.a, kind) ELSE <<>>

\* An outcome of a market of the kind carries a recognized label.
Recognized(kind) ==
    \E e \in 1..Len(OUTCOME_ALIASES[kind]) :
        Matching(OutcomesIn(kind), OUTCOME_ALIASES[kind][e]) # {}

\* C25: in every produced match each of odds_1x2, odds_ou and odds_btts is
\* None when no outcome of a market of its kind carries a recognized label,
\* and otherwise a mapping with at least one key, all of them canonical
\* keys of the kind; it is never an empty mapping.
C25_OddsPresentOrNone ==
    GaveMatch =>
        \A kind \in MarketKinds :
            LET odds == xOut.val[OddsField(kind)] IN
            IF Recognized(kind)
            THEN /\ ~IsNone(odds)
                 /\ DOMAIN odds # {}
                 /\ DOMAIN odds \subseteq
                       { OUTCOME_ALIASES[kind][e].key : e \in 1..Len(OUTCOME_ALIASES[kind]) }
            ELSE IsNone(odds)

\* C25 witness: a match whose event has an over/under market with an
\* outcome of an unknown label, and whose odds_ou and odds_1x2 are None.
C25_Witness ==
    /\ GaveMatch
    /\ OutcomesIn("ou25") # <<>> /\ ~Recognized("ou25")
    /\ IsNone(xOut.val.odds_ou) /\ IsNone(xOut.val.odds_1x2)

\* The event holds one of the start-time keys.
HasStartKey(event) ==
    \E i \in 1..Len(FIELD_MAP.start) : FIELD_MAP.start[i] \in DOMAIN event.f

\* C26 as claimed: the time of a produced match is "TBD" when the event
\* holds no start-time key, and is anything else only when it holds one.
C26_TbdWhenMissing ==
    GaveMatch =>
        /\ ~HasStartKey(xIn.event) => xOut.val.time = "TBD"
        /\ xOut.val.time # "TBD" => HasStartKey(xIn.event)

\* shown is what claim C27 says of the name s under the limit n: s itself
\* when it is no longer than n, else its first n - 1 characters and the
\* ellipsis.
Bounded(shown, s, n) ==
    IF Len(s) <= n THEN shown = s
    ELSE /\ Len(shown) = n
         /\ SubSeq(shown, 1, n - 1) = SubSeq(s, 1, n - 1)
         /\ CharAt(shown, n) = Ellipsis

\* C27: in every produced match home and away are at most 28 characters
\* long and league at most 32; a home name given as homeTeamName is shown
\* whole up to 28 characters and as its first 27 characters and the
\* ellipsis beyond, and so is a league given by the grouped parser or as
\* leagueName, with 32 and 31.
C27_TruncationBounds ==
    GaveMatch =>
        /\ Len(xOut.val.home) <= 28
        /\ Len(xOut.val.away) <= 28
        /\ Len(xOut.val.league) <= 32
        /\ ( /\ "homeTeamName" \in DOMAIN xIn.event.f
             /\ xIn.event.f["homeTeamName"].t = "str" ) =>
               Bounded(xOut.val.home, xIn.event.f["homeTeamName"].s, 28)
        /\ ~IsNone(xIn.league) => Bounded(xOut.val.league, xIn.league.s, 32)
        /\ (IsNone(xIn.league) /\ "leagueName" \in DOMAIN xIn.event.f) =>
               Bounded(xOut.val.league, xIn.event.f["leagueName"].s, 32)

\* C27 witness: a match from an event whose names are 40 characters long:
\* home and away are 27 characters and the ellipsis, league 31 and the
\* ellipsis.
C27_Witness ==
    /\ GaveMatch
    /\ "homeTeamName" \in DOMAIN xIn.event.f
    /\ Len(xIn.event.f["homeTeamName"].s) = 40
    /\ IsNone(xIn.league)
    /\ xOut.val.home = Repeat("A", 27) \o Ellipsis
    /\ xOut.val.away = Repeat("B", 27) \o Ellipsis
    /\ xOut.val.league = Repeat("L", 31) \o Ellipsis

\* The answer to the request that ended the fetch of ENDPOINTS[i].
FinalAnswer(k, i) ==
    NetOutcome(IF k.att[i].aio # "none" THEN k.att[i].aio ELSE k.att[i].curl)

\* The value the flat-list parser takes for the events is not a list.
UnexpectedShape(doc) ==
    \/ ~IsDict(doc)
    \/ LET payload == Get(doc, "data", doc)
           events  == IF IsDict(payload) THEN Get(payload, "events", payload) ELSE payload
       IN  ~IsList(events)

\* C28 as claimed: when the fetch of a flat-list endpoint ended on a 200
\* answer whose body is JSON, not HTML, and of unexpected shape, a top-level
\* value that is not an object included, the endpoint gave the empty list,
\* no error was recorded for it and the next endpoint was attempted.
C28_UnexpectedShapeIsEmpty ==
    \A c \in DOMAIN call : \A i \in 1..NumEndpoints :
        LET k == call[c] IN
        ( /\ FetchEnded(k, i) /\ Parser(i) = "highlights"
          /\ FinalAnswer(k, i).exc = "None" /\ FinalAnswer(k, i).status = 200
          /\ FinalAnswer(k, i).text.valid /\ ~IsHtmlBody(FinalAnswer(k, i).text)
          /\ UnexpectedShape(FinalAnswer(k, i).text.doc) ) =>
            /\ Empty(k, i)
            /\ LastErrorAfter(NoExc, BodyResult(k, i), Url(i)) = NoExc
            /\ i < NumEndpoints => Requests(k, i + 1) >= 1

\* The subsequence of the events that carry an identifier, in order.
RECURSIVE Carrying(_)
Carrying(events) ==
    IF events = <<>> THEN <<>>
    ELSE (IF HasIdentifier(Head(events)) THEN <<Head(events)>> ELSE <<>>)
         \o Carrying(Tail(events))

\* The identifier an event carries: the first usable value under the known
\* keys, as a string.
CarriedId(event) ==
    LET keys == FIELD_MAP.event_id
        at   == { i \in 1..Len(keys) :
                     keys[i] \in DOMAIN event.f /\ IsUsableId(event.f[keys[i]]) }
    IN  PyStr(event.f[keys[CHOOSE i \in at : \A j \in at : i <= j]])

\* C29 as claimed: for a flat-list document whose events are all objects the
\* parse returns one match per event that carries an identifier, in upstream
\* order, each event as often as it occurs, and leaves out only the events
\* without an identifier.
C29_OneMatchPerIdentifiedEvent ==
    ( /\ xOut.done
      /\ \A j \in 1..Len(UpstreamEvents(xIn.doc)) : IsDict(UpstreamEvents(xIn.doc)[j]) ) =>
        /\ xOut.tag = "return"
        /\ EventIds(xOut.val) =
              [j \in 1..Len(Carrying(UpstreamEvents(xIn.doc))) |->
                  CarriedId(Carrying(UpstreamEvents(xIn.doc))[j])]

\* The step ends a call of caller c with a list fetched from an endpoint.
FetchedList(c) ==
    /\ call[c].pc # "done" /\ call'[c].pc = "done"
    /\ call'[c].ret.kind = "list" /\ ~call'[c].hit

\* C30: the cache changes only in a step that ends a call with a fetched
\* list, so no step of a call that fails, forced or not, touches the
\* snapshot or its timestamp; and a call without force_refresh that starts
\* while the cache holds a fresh snapshot is served that snapshot.
C30_FailureLeavesCache ==
    [][ /\ cache' # cache => \E c \in DOMAIN call : FetchedList(c)
        /\ \A c \in DOMAIN call :
              ( /\ call[c].pc = "idle" /\ call'[c].pc # "idle"
                /\ ~call'[c].force /\ ~CacheGet(cache, now).none ) =>
                    /\ call'[c].pc = "done" /\ call'[c].hit
                    /\ call'[c].ret = RetList(cache.data) ]_vars

\* C30 witness: a call with force_refresh has ended with the error of an
\* exhausted chain while the cache holds a fresh snapshot, and the other
\* caller, calling without force_refresh, has been served that snapshot.
C30_Witness ==
    \E c, d \in DOMAIN call :
        /\ c # d
        /\ call[c].pc = "done" /\ call[c].force /\ call[c].ret.kind = "raise"
        /\ ~CacheGet(cache, now).none
        /\ call[d].pc = "done" /\ ~call[d].force /\ call[d].hit
        /\ call[d].ret = RetList(cache.data)

\* The lists the parse of some endpoint can produce from an answer.
ParsedLists ==
    { b.val : b \in { r \in { TryBody(FetchAiohttp(NetOutcome(name), Url(i)), Parser(i)) :
                                 name \in NetOutcomes, i \in 1..NumEndpoints } :
                         r.tag = "return" } }

\* C31: whatever calls of get_today_matches have run and however they
\* interleaved, the cache is either as constructed (the empty list, never
\* stamped) or holds a non-empty list that the parse of an endpoint
\* produced.
C31_CacheNeverEmptyWrite ==
    \/ cache = CacheInit
    \/ cache.data # <<>> /\ cache.data \in ParsedLists

\* C31 witness: one call has ended after all three endpoints answered
\* without a match, and the cache holds the non-empty list that the call
\* of the other caller fetched.
C31_Witness ==
    \E c, d \in DOMAIN call :
        /\ c # d
        /\ call[c].pc = "done" /\ \A i \in 1..NumEndpoints : Empty(call[c], i)
        /\ call[d].pc = "done" /\ ~call[d].hit /\ call[d].ret.kind = "list"
        /\ cache.data = call[d].ret.list /\ cache.data # <<>>

\* The selections user u holds for the event event_id.
HeldFor(selections, u, event_id) ==
    IF u \notin DOMAIN selections THEN {}
    ELSE { selections[u][k] : k \in { k \in DOMAIN selections[u] :
                                         selections[u][k].event_id = event_id } }

\* The update handled last stored a pick: callback data of six parts whose
\* odd float() accepted.
StoredPick ==
    /\ StartsWith(update.data, "pick_") /\ Len(SplitOn(update.data, "|")) = 6
    /\ update.raised = "None"

\* C32: every user holds at most one selection per event; a pick that was
\* stored is the one selection its user holds for its event, that user's
\* selections for other events being as before; and whatever a user did
\* (pick, remove, clear_all, /clear, any other button), every other user's
\* betslip is as it was before.
C32_OnePerEventOthersUntouched ==
    /\ \A u \in DOMAIN user_selections : \A k1, k2 \in DOMAIN user_selections[u] :
          user_selections[u][k1].event_id = user_selections[u][k2].event_id => k1 = k2
    /\ StoredPick =>
          LET parts == SplitOn(update.data, "|") IN
          /\ \E sel \in HeldFor(user_selections, update.user_id, parts[2]) :
                /\ HeldFor(user_selections, update.user_id, parts[2]) = {sel}
                /\ sel.market = parts[3] /\ sel.pick = parts[4]
          /\ \A i \in 1..Len(BotMatches) :
                BotMatches[i].event_id # parts[2] =>
                    HeldFor(user_selections, update.user_id, BotMatches[i].event_id)
                    = HeldFor(update.before, update.user_id, BotMatches[i].event_id)
    /\ update.user_id # 0 =>
          \A u \in Users \ {update.user_id} :
              /\ u \in DOMAIN user_selections <=> u \in DOMAIN update.before
              /\ u \in DOMAIN user_selections => user_selections[u] = update.before[u]

\* C32 witness: a user who held a selection for an event in one market and
\* a selection for another event picked an outcome of another market of
\* the first event, and the pick was stored, while the other user holds a
\* selection for the same event.
C32_Witness ==
    /\ StoredPick
    /\ \E old \in HeldFor(update.before, update.user_id, SplitOn(update.data, "|")[2]) :
          old.market # SplitOn(update.data, "|")[3]
    /\ Cardinality(DOMAIN update.before[update.user_id]) = 2
    /\ \E u \in Users \ {update.user_id} :
          HeldFor(user_selections, u, SplitOn(update.data, "|")[2]) # {}

\* The attempts of the call before the last one made.
EarlierAttempts == 1..(Len(fj.log) - 1)

\* What a fetch_json call has done so far agrees with the claim: at most
\* retries attempts; every attempt but the last ended in an HTTP error other
\* than 403, a connection error or a timeout; a call that has returned
\* returned the document exactly when its last attempt succeeded, without
\* a further attempt after a success, a 403 or an unexpected error, and
\* None otherwise.
FetchJsonAsClaimed ==
    /\ Len(fj.log) <= fj.retries
    /\ \A i \in EarlierAttempts : fj.log[i] \in {"404", "500", "connection", "timeout"}
    /\ fj.pc = "done" =>
          /\ fj.ret = "document" <=> (fj.log # <<>> /\ fj.log[Len(fj.log)] = "ok")
          /\ fj.ret = "None" <=> ~(fj.log # <<>> /\ fj.log[Len(fj.log)] = "ok")
          /\ (fj.log # <<>> /\ fj.log[Len(fj.log)] \in {"404", "500", "connection", "timeout"})
                => Len(fj.log) = fj.retries

\* C33: a fetch_json call always ends, and at every point has done what the
\* claim says: at most retries attempts, a retry only after an HTTP error
\* other than 403, a connection error or a timeout, the document of the
\* first attempt that succeeded, and None when none did.
C33_FetchJsonTerminates ==
    /\ []FetchJsonAsClaimed
    /\ <>(fj.pc = "done")

\* C33 witness: a call with three retries has returned None after a 500, a
\* timeout and a connection error, having slept 2, 4 and 8 seconds.
C33_Witness ==
    /\ fj.pc = "done" /\ fj.retries = 3 /\ fj.ret = "None"
    /\ fj.log = <<"500", "timeout", "connection">>
    /\ fj.slept = <<2, 4, 8>>

\* The selections that map to a known market/pick pair, in order.
RECURSIVE KnownOnes(_)
KnownOnes(selections) ==
    IF selections = <<>> THEN <<>>
    ELSE (IF Mapping(Get(Head(selections), "market", JNull),
                     Get(Head(selections), "pick", JNull)) # JNull
          THEN <<Head(selections)>> ELSE <<>>) \o KnownOnes(Tail(selections))

===========================================================================
